---- MODULE Spec2Model ----
(***************************************************************************)
(* Kerr black-hole transfer-map generator: the adaptive geodesic           *)
(* integrator (integration.rs, integrate_geodesic_multi_order) and the     *)
(* multi-order packer (transfer_maps.rs, pack_pixel_multi_order) as a      *)
(* state machine for one ray, and the run around the rays (generate.rs     *)
(* main, render.rs render_transfer_maps with its worker threads) as a      *)
(* second one.  The library's stand-alone units (disc_model.rs            *)
(* generate_flux_lut, validation.rs ValidationStats) are a third.          *)
(*                                                                         *)
(* Number representation.  The program computes in f64.  The model keeps  *)
(* the control flow and every comparison of the code and puts the values   *)
(* on integer grids:                                                       *)
(*   lengths (r, mass, disc radii)    whole length units                   *)
(*   polar and azimuthal angles       units of pi/4  (PI = 4)              *)
(*   affine parameter and step size   units of 1e-8  (h_min = 1)           *)
(*   error estimate                   units of 1e-15 (tolerance = 1000)    *)
(* NaN is a distinguished value that every comparison treats as the f64    *)
(* comparisons do (always false) and that f64::max / f64::min skip.        *)
(* A code threshold below the grid resolution (|x| > 1e-12, |x| < 1e-15)   *)
(* is the test x # 0 (resp. x = 0) on the grid.  Next to a turning point   *)
(* the grid of a ray may be finer: its envelope names the increments of r  *)
(* and of theta between grid points that are at most 1e-12 apart (slow_r,  *)
(* slow_theta), and the test |x| > 1e-12 fails for them.                   *)
(*                                                                         *)
(* dopri8_step is deterministic floating-point arithmetic.  The model      *)
(* keeps what it does to signs and to lambda and lets its numerical        *)
(* outputs (new r, theta, phi and the error estimate) range over the       *)
(* envelope `traj` of the ray, an input fixed in Init.                     *)
(***************************************************************************)
EXTENDS Integers, Sequences, FiniteSets, TLC

VARIABLES
    black_hole,         \* BlackHole {mass, spin}
    photon,             \* PhotonState: r, theta, phi and the conserved quantities
    traj,               \* envelope of the values the stepper produces for this photon
    initial_sign_theta, \* argument of integrate_geodesic_multi_order
    r_disc_inner,       \* argument
    r_disc_outer,       \* argument
    max_orders,         \* argument (u8)
    max_steps,          \* argument (usize)
    width,              \* TransferMaps.width
    height,             \* TransferMaps.height
    pixel_x,            \* pixel column of this ray (x)
    pixel_y,            \* pixel row of this ray (y)
    high_precision,     \* TransferMaps.high_precision_data.is_some()
    state,              \* IntegrationState
    results,            \* Vec<GeodesicResult>, 1-based here: results[k+1] is slot k
    disc_crossings,     \* u8
    turns_r,            \* u8
    turns_theta,        \* u8
    prev_sign_r,
    prev_sign_theta,
    h,                  \* step size
    steps_taken,
    pc,                 \* "loop" | "bisect" | "returned"
    prev,               \* state before the accepted step (live while pc = "bisect")
    error,              \* error estimate of the accepted step (live while pc = "bisect")
    bis,                \* locals of bisect_disc_intersection (live while pc = "bisect")
    step_signs,         \* <<sign_r, sign_theta>> of the latest dopri8_step result
    exact_state,        \* refined crossing state of the latest handled crossing
    azimuth,            \* history: phi of `state` accumulated over the accepted steps,
                        \* never reduced modulo 2 pi
    last_trial,         \* history: step size, error estimate, verdict and trial
                        \* position of the latest trial step of the main loop
    side,               \* history: side of the equator (-1 | 1) of the latest stored
                        \* theta off the equator, 0 before the first accepted step
    tex,                \* the six RGBA32F textures: written f32 slots of t1..t6
    hp,                 \* HighPrecisionData.positions: written entries
    pack_order,         \* loop index of pack_pixel_multi_order
    client,             \* who drives the run: the generate binary or a library caller
    build,              \* "debug" | "release" (overflow checks and debug_assert!)
    args,               \* command line (generate) or constructor arguments (library)
    scene,              \* what the integrator returns for each pixel of this run
    gpc,                \* position of the run: "main" | "render" | "workers" | "save" | "exit"
    exit_code,          \* process exit code; Running until the process ends
    camera,             \* Camera
    config,             \* RenderConfig
    rows,               \* rows of 0..height not yet handed to a worker thread
    workers,            \* per worker thread: position in the row closure and its locals
    disc_hits,          \* AtomicUsize
    pixels_processed,   \* AtomicU64
    pb_position,        \* value last passed to progress_callback
    manifest,           \* TransferMaps.manifest
    files,              \* artifact files written to the output directory
    traced,             \* every integrate_geodesic_multi_order call so far: how often
                        \* each <<x, y, thread>> made one
    stores,             \* every store made so far: <<buffer, index, pixel index>>
    flux,               \* a generate_flux_lut call: arguments, loop index i, lut
    stats,              \* a ValidationStats object
    updates             \* history: the errors passed to ValidationStats::update

ivars == <<black_hole, photon, traj, initial_sign_theta, r_disc_inner, r_disc_outer,
           max_orders, max_steps, width, height, pixel_x, pixel_y,
           high_precision>>

hvars == <<azimuth, last_trial, side>>

lvars == <<state, results, disc_crossings, turns_r, turns_theta, prev_sign_r,
           prev_sign_theta, h, steps_taken, pc, prev, error, bis, step_signs,
           exact_state, hvars>>

pvars == <<tex, hp, pack_order>>

\* the run of the generator around the per-ray machine
mainvars == <<client, build, args, scene, gpc, exit_code, camera, config, rows,
              workers, disc_hits, pixels_processed, pb_position, manifest, files,
              traced, stores>>

\* the library's stand-alone units: the disc model and the validation statistics
uvars == <<flux, stats, updates>>

gvars == <<mainvars, uvars>>

vars == <<ivars, lvars, pvars, gvars>>

----------------------------------------------------------------------------
\* f64 special value and comparisons

NaN == -1000000

IsNaN(x) == x = NaN

FLt(x, y) == ~IsNaN(x) /\ ~IsNaN(y) /\ x < y
FLe(x, y) == ~IsNaN(x) /\ ~IsNaN(y) /\ x <= y
FGt(x, y) == FLt(y, x)
FGe(x, y) == FLe(y, x)

FAdd(x, y) == IF IsNaN(x) \/ IsNaN(y) THEN NaN ELSE x + y
FSub(x, y) == IF IsNaN(x) \/ IsNaN(y) THEN NaN ELSE x - y
FMul(x, y) == IF IsNaN(x) \/ IsNaN(y) THEN NaN ELSE x * y
FAbs(x)    == IF IsNaN(x) THEN NaN ELSE IF x < 0 THEN 0 - x ELSE x

\* f64::max and f64::min return the other argument when one is NaN
FMax(x, y) == IF IsNaN(x) THEN y ELSE IF IsNaN(y) THEN x ELSE IF x < y THEN y ELSE x
FMin(x, y) == IF IsNaN(x) THEN y ELSE IF IsNaN(y) THEN x ELSE IF x < y THEN x ELSE y

\* f64::rem_euclid(m) for m > 0
RemEuclid(x, m) == IF IsNaN(x) THEN NaN ELSE x % m

\* u8::saturating_add(1)
U8Max == 255
\* u8::wrapping_add(1)
WrappingInc(n) == (n + 1) % (U8Max + 1)

SaturatingInc(n) == IF n >= U8Max THEN U8Max ELSE n + 1

----------------------------------------------------------------------------
\* Program constants on the grids

PI == 4                  \* std::f64::consts::PI, in units of pi/4
Equator == PI \div 2
TwoPi == 2 * PI

Tolerance == 1000        \* 1e-12 in units of 1e-15
TinyError == 10          \* 1e-14 in units of 1e-15
H0 == 5000000            \* 0.05 in units of 1e-8
HMin == 1                \* 1e-8
HMax == 50000000         \* 0.5
EscapeRadius == 1000
NearRadius == 10
FarRadius == 100
BisectIterations == 20
DiscOuterRadius == 20    \* render.rs: r_outer

----------------------------------------------------------------------------
\* BlackHole

\* integer square root of a perfect square
ISqrt(n) == CHOOSE s \in 0..n : s * s = n

\* BlackHole::horizon_radius: m + sqrt(m*m - a*a)
HorizonRadius(bh) == bh.mass + ISqrt(bh.mass * bh.mass - bh.spin * bh.spin)

\* BlackHole::isco_radius for a Schwarzschild hole: 6.0 * m
IscoRadius(bh) == 6 * bh.mass

----------------------------------------------------------------------------
\* Conserved-quantity initializer: the sign of the polar momentum

\* calculate_conserved_quantities_lnrf: if p_th >= 0.0 { 1.0 } else { -1.0 }
\* the sign taken with signum-like cases: 0 (or NaN) momentum gives no sign
SignumTheta(p_th) == IF FGt(p_th, 0) THEN 1 ELSE IF FLt(p_th, 0) THEN -1 ELSE 0

InitialSignTheta(p_th) == IF FGe(p_th, 0) THEN 1 ELSE -1

----------------------------------------------------------------------------
\* GeodesicResult (impact_parameter, redshift_factor and null_invariant_error
\* are pure functions of the fields kept here and are left out)

Escaped(tr, tt)  == [kind |-> "Escaped",  turns_r |-> tr, turns_theta |-> tt]
Captured(tr, tt) == [kind |-> "Captured", turns_r |-> tr, turns_theta |-> tt]
Aborted(tr, tt)  == [kind |-> "Aborted",  turns_r |-> tr, turns_theta |-> tt]

\* phi_wraps = |phi - initial_phi| / (2 pi), kept as the number of eighths of
\* a turn (the angle unit is pi/4, so this is |phi - initial_phi| itself)
PhiWraps(exact) == FAbs(FSub(exact.phi, exact.initial_phi))

DiscHit(exact, order, tr, tt) ==
    [kind |-> "DiscHit", r |-> exact.r, theta |-> exact.theta, phi |-> exact.phi,
     energy |-> photon.energy, angular_momentum |-> photon.angular_momentum,
     carter_q |-> photon.carter_q, affine_parameter |-> exact.lambda,
     phi_wraps |-> PhiWraps(exact), order |-> order,
     turns_r |-> tr, turns_theta |-> tt]

IsHit(res) == res.kind = "DiscHit"

----------------------------------------------------------------------------
\* IntegrationState::new

NewIntegrationState(ph, sign_theta) ==
    [r |-> ph.r, theta |-> ph.theta, phi |-> ph.phi, lambda |-> 0,
     initial_phi |-> ph.phi, sign_r |-> -1, sign_theta |-> sign_theta]

----------------------------------------------------------------------------
\* carter_potentials: the clamped potentials (R, Theta) at a position.  R is
\* a function of r and Theta a function of theta for fixed (E, L_z, Q, a);
\* traj.r_turn and traj.th_turn are the grid points where the potential of
\* this photon is <= 0.  The result is big_r.max(0.0), theta_pot.max(0.0):
\* 0 where the potential is <= 0 or NaN, and a positive value (1) elsewhere.

RPotential(r)      == IF IsNaN(r) \/ r \in traj.r_turn THEN 0 ELSE 1
ThetaPotential(th) == IF IsNaN(th) \/ th \in traj.th_turn THEN 0 ELSE 1

CarterPotentials(r, th) == [r_pot |-> RPotential(r), theta_pot |-> ThetaPotential(th)]

\* the turning-point rule used by dopri8_step (lines 163-168) and again by
\* the main loop (lines 373-384)
FlipAtTurningPoint(sign, pot_before, pot_after) ==
    LET s1 == IF pot_before > 0 /\ pot_after = 0 THEN 0 - sign ELSE sign
    IN  IF pot_before * pot_after < 0 THEN 0 - s1 ELSE s1

----------------------------------------------------------------------------
\* dopri8_step.  `out` is the numerical outcome [r, theta, phi, err] of the
\* 13 stages for this state and step size.

StepOutcomes(s, thetas) ==
    IF IsNaN(s.r) \/ IsNaN(s.theta)
    THEN {[r |-> NaN, theta |-> NaN, phi |-> NaN, err |-> NaN]}
    ELSE {[r |-> nr,
           theta |-> IF IsNaN(nr) THEN NaN ELSE nth,
           phi |-> IF IsNaN(nr) THEN NaN ELSE FAdd(s.phi, d),
           err |-> IF IsNaN(nr) THEN NaN ELSE e] :
            nr \in traj.r_range, nth \in thetas,
            d \in traj.dphi_range, e \in traj.err_range}

Dopri8Step(s, step_size, out) ==
    LET before == CarterPotentials(s.r, s.theta)
        after  == CarterPotentials(out.r, out.theta)
    IN  [r |-> out.r, theta |-> out.theta, phi |-> out.phi,
         lambda |-> FAdd(s.lambda, step_size), initial_phi |-> s.initial_phi,
         sign_r |-> FlipAtTurningPoint(s.sign_r, before.r_pot, after.r_pot),
         sign_theta |-> FlipAtTurningPoint(s.sign_theta, before.theta_pot, after.theta_pot)]

----------------------------------------------------------------------------
\* compute_next_step_size and the clamp that follows each call

\* FactorBounds[q-1] = floor(1000 * (9/q)^8): safety * (tol/error)^(1/8) >= q/10
\* exactly when error <= 1000 * (9/q)^8 (tol = 1000, safety = 0.9)
FactorBounds == <<168151253, 6561000, 656840, 110199, 25628, 7467, 2565, 1000,
                  430, 200, 100, 52, 29, 16, 10>>

\* safety * (tol/error)^(1/8) clamped to [0.2, 5.0], in tenths, rounded down.
\* NaN.max(0.2) is 0.2.
FactorTenths(err) ==
    IF IsNaN(err) THEN 2
    ELSE LET ok == {q \in 2..16 : err <= FactorBounds[q - 1]}
         IN  IF ok = {} THEN 2 ELSE CHOOSE q \in ok : \A p \in ok : p <= q

\* a step-size rule that never shrinks the step
KeepStepSize(current_h, err) == current_h

ComputeNextStepSize(current_h, err) ==
    IF FLt(err, TinyError) THEN current_h * 5
    ELSE (current_h * FactorTenths(err)) \div 10

\* h.max(h_min).min(h_max)
ClampStep(hh) == FMin(FMax(hh, HMin), HMax)

\* error.max(1e-16): 1e-16 is below the error grid, so NaN becomes 0
ErrorFloor(err) == FMax(err, 0)

\* an acceptance test without the escape at h_min
AcceptWithinTolerance(err, hh) == FLe(err, Tolerance)

\* line 351: error <= tolerance || h <= h_min
StepAccepted(err, hh) == FLe(err, Tolerance) \/ hh <= HMin

----------------------------------------------------------------------------
\* The pieces of one accepted step (lines 353-449)

\* lines 362-367: if d.abs() > 1e-12 { sign = if d >= 0.0 { 1.0 } else { -1.0 } }
\* `slow` holds the grid increments of this ray that are at most 1e-12
ContinuitySign(sign, d, slow) ==
    IF FGt(FAbs(d), 0) /\ d \notin slow
    THEN (IF FGe(d, 0) THEN 1 ELSE -1) ELSE sign

\* lines 357-384: the signs of the accepted state
UpdateSigns(before, trial) ==
    LET pb == CarterPotentials(before.r, before.theta)
        pa == CarterPotentials(trial.r, trial.theta)
        sr == ContinuitySign(trial.sign_r, FSub(trial.r, before.r), traj.slow_r)
        st == ContinuitySign(trial.sign_theta, FSub(trial.theta, before.theta),
                             traj.slow_theta)
    IN  [trial EXCEPT !.sign_r = FlipAtTurningPoint(sr, pb.r_pot, pa.r_pot),
                      !.sign_theta = FlipAtTurningPoint(st, pb.theta_pot, pa.theta_pot)]

\* lines 387-394
CountTurn(turns, sign, prev_sign) ==
    IF sign # prev_sign THEN SaturatingInc(turns) ELSE turns

\* line 397: state.r < r_horizon * 1.01
CapturedAt(r) == FLt(FMul(r, 100), HorizonRadius(black_hole) * 101)

\* line 404: state.r > 1000.0
EscapedAt(r) == FGt(r, EscapeRadius)

\* line 414: (prev.theta - equator) * (state.theta - equator) < 0.0
Crossed(th_before, th_after) ==
    FLt(FMul(FSub(th_before, Equator), FSub(th_after, Equator)), 0)

\* a radius test that forgets the inner edge
WithinOuterRadius(r) == FLe(r, r_disc_outer)

\* line 417
WithinRadius(r) == FGe(r, r_disc_inner) /\ FLe(r, r_disc_outer)

\* a fill that starts at slot 0 whatever the crossing count
FillFromStart(res, from, value) ==
    [k \in 1..Len(res) |-> value]

\* for i in disc_crossings..max_orders { results[i] = value }
FillFrom(res, from, value) ==
    [k \in 1..Len(res) |-> IF k > from THEN value ELSE res[k]]

\* lines 448-449
WrapState(s) ==
    [s EXCEPT !.theta = IF FLt(s.theta, 0) \/ FGt(s.theta, PI)
                        THEN RemEuclid(s.theta, PI) ELSE s.theta,
              !.phi = RemEuclid(s.phi, TwoPi)]

\* lines 464-479
LikelyFate(s, tr, tt) ==
    IF FLt(s.r, NearRadius) THEN Captured(tr, tt)
    ELSE IF FGt(s.r, FarRadius) THEN Escaped(tr, tt)
    ELSE IF FLt(s.sign_r, 0) THEN Captured(tr, tt)
    ELSE Escaped(tr, tt)

NoLocal == <<>>

\* the side of the equatorial plane a polar angle is on: -1 above it
\* (theta < pi/2), 1 below it, 0 on it (or NaN)
SideOf(th) == IF FLt(th, Equator) THEN -1 ELSE IF FGt(th, Equator) THEN 1 ELSE 0

\* history: the side of the latest stored theta that was off the equator
LatestSide(s) == IF SideOf(s.theta) # 0 THEN SideOf(s.theta) ELSE side

\* lines 417-451: what the loop does with the refined crossing state `exact`
\* of the accepted state `st` (turn counts tr, tt; error estimate err)
HandleCrossing(exact, st, tr, tt, err) ==
    LET within == WithinRadius(exact.r)
        dc     == IF within THEN disc_crossings + 1 ELSE disc_crossings
    IN  /\ results' = IF within /\ disc_crossings < max_orders
                      THEN [results EXCEPT ![disc_crossings + 1] =
                                DiscHit(exact, disc_crossings, tr, tt)]
                      ELSE results
        /\ disc_crossings' = dc
        /\ IF within /\ dc >= max_orders
           THEN /\ pc' = "returned"
                /\ state' = st
                /\ h' = h
           ELSE /\ pc' = "loop"
                /\ state' = WrapState(st)
                /\ h' = ClampStep(ComputeNextStepSize(h, ErrorFloor(err)))
        /\ side' = SideOf(WrapState(st).theta)
        /\ exact_state' = exact
        /\ prev' = NoLocal
        /\ error' = NoLocal
        /\ bis' = NoLocal

----------------------------------------------------------------------------
\* bisect_disc_intersection

\* line 200
BisectNoBracket(th_left, th_right) ==
    FGe(FMul(FSub(th_left, Equator), FSub(th_right, Equator)), 0)

\* line 201
BisectNearer(before, after) ==
    IF FLt(FAbs(FSub(before.theta, Equator)), FAbs(FSub(after.theta, Equator)))
    THEN before ELSE after

\* a midpoint reflected out of the bracket, beyond its right end
LambdaBeyond(b) ==
    IF IsNaN(b.lambda_left) \/ IsNaN(b.lambda_right) THEN NaN
    ELSE b.lambda_right + (b.lambda_right - b.lambda_left)

\* lines 205-206: lambda_left + frac * (lambda_right - lambda_left),
\* frac = (equator - theta_left) / (theta_right - theta_left), rounded down
LambdaMid(b) ==
    IF IsNaN(b.theta_left) \/ IsNaN(b.theta_right)
       \/ IsNaN(b.lambda_left) \/ IsNaN(b.lambda_right)
    THEN NaN
    ELSE LET num == Equator - b.theta_left
             den == b.theta_right - b.theta_left
             w   == b.lambda_right - b.lambda_left
         IN  IF den > 0 THEN b.lambda_left + (num * w) \div den
             ELSE b.lambda_left + ((0 - num) * w) \div (0 - den)

\* lines 211-215
BisectNarrowed(b, lambda_mid, theta_mid) ==
    IF FLt(FMul(FSub(theta_mid, Equator), FSub(b.theta_right, Equator)), 0)
    THEN [b EXCEPT !.lambda_left = lambda_mid, !.theta_left = theta_mid]
    ELSE [b EXCEPT !.lambda_right = lambda_mid, !.theta_right = theta_mid]

\* line 210: (theta_mid - equator).abs() < 1e-12
BisectConvergedAt(theta_mid) == FAbs(FSub(theta_mid, Equator)) = 0

\* line 216: (lambda_right - lambda_left).abs() < 1e-15
BisectIntervalTiny(b) == FAbs(FSub(b.lambda_right, b.lambda_left)) = 0

\* lines 217, 222: (lambda_left + lambda_right) * 0.5 - state_before.lambda
FinalStep(b, before) ==
    IF IsNaN(b.lambda_left) \/ IsNaN(b.lambda_right) THEN NaN
    ELSE (b.lambda_left + b.lambda_right) \div 2 - before.lambda

\* outcomes of a bisection sub-step of size step_size from state_before
SubStepOutcomes(before, step_size) ==
    IF IsNaN(step_size)
    THEN {[r |-> NaN, theta |-> NaN, phi |-> NaN, err |-> NaN]}
    ELSE StepOutcomes(before, traj.mid_range)

----------------------------------------------------------------------------
\* integrate_geodesic_multi_order: one action per path through one iteration
\* of the while loop (lines 346-458), one per path through one iteration of
\* the bisection loop, and the classification after the loop (lines 462-487)

InLoop == pc = "loop" /\ steps_taken < max_steps

\* lines 349-351: the trial steps the loop can take from the current state
\* that it accepts (resp. rejects)
AcceptedOutcomes ==
    {out \in StepOutcomes(state, traj.th_range) : StepAccepted(out.err, h)}
RejectedOutcomes ==
    {out \in StepOutcomes(state, traj.th_range) : ~StepAccepted(out.err, h)}

\* the bookkeeping common to every accepted step (lines 353-394): trial is
\* the result of dopri8_step, adv the accepted state with its signs updated
AcceptBookkeeping(trial, adv, err) ==
    /\ steps_taken' = steps_taken + 1
    /\ azimuth' = FAdd(azimuth, FSub(trial.phi, state.phi))
    /\ last_trial' = [h |-> h, err |-> err, accepted |-> TRUE,
                      r |-> trial.r, theta |-> trial.theta]
    /\ turns_r' = CountTurn(turns_r, adv.sign_r, prev_sign_r)
    /\ turns_theta' = CountTurn(turns_theta, adv.sign_theta, prev_sign_theta)
    /\ prev_sign_r' = adv.sign_r
    /\ prev_sign_theta' = adv.sign_theta
    /\ step_signs' = <<trial.sign_r, trial.sign_theta>>

\* lines 453-457
RejectStep ==
    /\ InLoop
    /\ \E out \in RejectedOutcomes :
        LET trial == Dopri8Step(state, h, out)
        IN  /\ h' = ClampStep(ComputeNextStepSize(h, out.err))
            /\ step_signs' = <<trial.sign_r, trial.sign_theta>>
            /\ last_trial' = [h |-> h, err |-> out.err, accepted |-> FALSE,
                              r |-> trial.r, theta |-> trial.theta]
    /\ exact_state' = NoLocal
    /\ UNCHANGED <<gvars, ivars, pvars, state, results, disc_crossings, turns_r, turns_theta,
                   prev_sign_r, prev_sign_theta, steps_taken, pc, prev, error, bis,
                   azimuth, side>>

\* lines 397-403
AcceptCaptured ==
    /\ InLoop
    /\ \E out \in AcceptedOutcomes :
        LET trial == Dopri8Step(state, h, out)
            adv   == UpdateSigns(state, trial)
        IN  /\ CapturedAt(adv.r)
            /\ AcceptBookkeeping(trial, adv, out.err)
            /\ state' = adv
            /\ results' = FillFrom(results, disc_crossings,
                                   Captured(turns_r', turns_theta'))
    /\ pc' = "returned"
    /\ exact_state' = NoLocal
    /\ UNCHANGED <<gvars, ivars, pvars, disc_crossings, h, prev, error, bis, side>>

\* lines 404-410
AcceptEscaped ==
    /\ InLoop
    /\ \E out \in AcceptedOutcomes :
        LET trial == Dopri8Step(state, h, out)
            adv   == UpdateSigns(state, trial)
        IN  /\ ~CapturedAt(adv.r)
            /\ EscapedAt(adv.r)
            /\ AcceptBookkeeping(trial, adv, out.err)
            /\ state' = adv
            /\ results' = FillFrom(results, disc_crossings,
                                   Escaped(turns_r', turns_theta'))
    /\ pc' = "returned"
    /\ exact_state' = NoLocal
    /\ UNCHANGED <<gvars, ivars, pvars, disc_crossings, h, prev, error, bis, side>>

\* lines 412-416 and 181-202: a crossing is flagged and the bisection starts
AcceptCrossing ==
    /\ InLoop
    /\ \E out \in AcceptedOutcomes :
        LET trial == Dopri8Step(state, h, out)
            adv   == UpdateSigns(state, trial)
        IN  /\ ~CapturedAt(adv.r)
            /\ ~EscapedAt(adv.r)
            /\ Crossed(state.theta, adv.theta)
            /\ AcceptBookkeeping(trial, adv, out.err)
            /\ IF BisectNoBracket(state.theta, adv.theta)
               THEN HandleCrossing(BisectNearer(state, adv), adv,
                                   turns_r', turns_theta', out.err)
               ELSE /\ pc' = "bisect"
                    /\ state' = adv
                    /\ prev' = state
                    /\ error' = out.err
                    /\ bis' = [lambda_left |-> state.lambda,
                               lambda_right |-> adv.lambda,
                               theta_left |-> state.theta,
                               theta_right |-> adv.theta,
                               iter |-> 0]
                    /\ exact_state' = NoLocal
                    /\ UNCHANGED <<results, disc_crossings, h, side>>
    /\ UNCHANGED <<gvars, ivars, pvars>>

\* lines 448-452: no capture, no escape, no crossing
AcceptContinue ==
    /\ InLoop
    /\ \E out \in AcceptedOutcomes :
        LET trial == Dopri8Step(state, h, out)
            adv   == UpdateSigns(state, trial)
        IN  /\ ~CapturedAt(adv.r)
            /\ ~EscapedAt(adv.r)
            /\ ~Crossed(state.theta, adv.theta)
            /\ AcceptBookkeeping(trial, adv, out.err)
            /\ state' = WrapState(adv)
            /\ side' = LatestSide(WrapState(adv))
            /\ h' = ClampStep(ComputeNextStepSize(h, ErrorFloor(out.err)))
    /\ exact_state' = NoLocal
    /\ UNCHANGED <<gvars, ivars, pvars, results, disc_crossings, pc, prev, error, bis>>

InBisect == pc = "bisect" /\ bis.iter < BisectIterations

MidStep == FSub(LambdaMid(bis), prev.lambda)

\* line 210: the sub-step lands on the equator
BisectConverged ==
    /\ InBisect
    /\ \E out \in SubStepOutcomes(prev, MidStep) :
        LET mid_state == Dopri8Step(prev, MidStep, out)
        IN  /\ BisectConvergedAt(mid_state.theta)
            /\ step_signs' = <<mid_state.sign_r, mid_state.sign_theta>>
            /\ HandleCrossing(mid_state, state, turns_r, turns_theta, error)
    /\ UNCHANGED <<gvars, ivars, pvars, turns_r, turns_theta, prev_sign_r, prev_sign_theta,
                   steps_taken, azimuth, last_trial>>

\* lines 211-215: the bracket narrows and the loop goes on
BisectIterate ==
    /\ InBisect
    /\ \E out \in SubStepOutcomes(prev, MidStep) :
        LET mid_state == Dopri8Step(prev, MidStep, out)
            narrowed  == BisectNarrowed(bis, LambdaMid(bis), mid_state.theta)
        IN  /\ ~BisectConvergedAt(mid_state.theta)
            /\ ~BisectIntervalTiny(narrowed)
            /\ step_signs' = <<mid_state.sign_r, mid_state.sign_theta>>
            /\ bis' = [narrowed EXCEPT !.iter = bis.iter + 1]
    /\ UNCHANGED <<gvars, ivars, pvars, state, results, disc_crossings, turns_r, turns_theta,
                   prev_sign_r, prev_sign_theta, h, steps_taken, pc, prev, error,
                   exact_state, hvars>>

\* lines 216-220: the bracket is narrower than 1e-15
BisectIntervalClosed ==
    /\ InBisect
    /\ \E out \in SubStepOutcomes(prev, MidStep) :
        LET mid_state == Dopri8Step(prev, MidStep, out)
            narrowed  == BisectNarrowed(bis, LambdaMid(bis), mid_state.theta)
        IN  /\ ~BisectConvergedAt(mid_state.theta)
            /\ BisectIntervalTiny(narrowed)
            /\ \E fin \in SubStepOutcomes(prev, FinalStep(narrowed, prev)) :
                LET final_state == Dopri8Step(prev, FinalStep(narrowed, prev), fin)
                IN  /\ step_signs' = <<final_state.sign_r, final_state.sign_theta>>
                    /\ HandleCrossing(final_state, state, turns_r, turns_theta, error)
    /\ UNCHANGED <<gvars, ivars, pvars, turns_r, turns_theta, prev_sign_r, prev_sign_theta,
                   steps_taken, azimuth, last_trial>>

\* lines 222-224: max_iterations sub-steps were not enough
BisectExhausted ==
    /\ pc = "bisect"
    /\ bis.iter >= BisectIterations
    /\ \E fin \in SubStepOutcomes(prev, FinalStep(bis, prev)) :
        LET final_state == Dopri8Step(prev, FinalStep(bis, prev), fin)
        IN  /\ step_signs' = <<final_state.sign_r, final_state.sign_theta>>
            /\ HandleCrossing(final_state, state, turns_r, turns_theta, error)
    /\ UNCHANGED <<gvars, ivars, pvars, turns_r, turns_theta, prev_sign_r, prev_sign_theta,
                   steps_taken, azimuth, last_trial>>

\* lines 462-487: the step budget is used up
StepBudgetExhausted ==
    /\ pc = "loop"
    /\ ~(steps_taken < max_steps)
    /\ results' = IF disc_crossings < max_orders
                  THEN FillFrom(results, disc_crossings,
                                LikelyFate(state, turns_r, turns_theta))
                  ELSE results
    /\ pc' = "returned"
    /\ UNCHANGED <<gvars, ivars, pvars, state, disc_crossings, turns_r, turns_theta, prev_sign_r,
                   prev_sign_theta, h, steps_taken, prev, error, bis, step_signs,
                   exact_state, hvars>>

----------------------------------------------------------------------------
\* pack_pixel_multi_order.  A texture is the map from its written f32 slots
\* to their values; every other slot still holds the 0.0 of TransferMaps::new.
\* Texture values: r in length units, sin and cos in units of 1e-4, the
\* weight in tenths.

TextureNames == {"t1", "t2", "t3", "t4", "t5", "t6"}

\* an index that forgets the row
ColumnIndex(x, y) == x

\* line 553
PixelIndexAt(x, y) == y * width + x

PixelIndex == PixelIndexAt(pixel_x, pixel_y)

\* one weight for every order
UnitWeight(order) == 10

\* lines 568-572
PositionTexture(order) == IF order = 0 THEN "t1" ELSE IF order = 1 THEN "t3" ELSE "t5"
PhysicsTexture(order)  == IF order = 0 THEN "t2" ELSE IF order = 1 THEN "t4" ELSE "t6"
Weight(order)          == IF order = 0 THEN 10 ELSE IF order = 1 THEN 3 ELSE 1

\* sin at the multiples of pi/4
SinTable == <<0, 7071, 10000, 7071, 0, -7071, -10000, -7071>>
Sin(phi) == IF IsNaN(phi) THEN NaN ELSE SinTable[(phi % TwoPi) + 1]
Cos(phi) == IF IsNaN(phi) THEN NaN ELSE SinTable[((phi + Equator) % TwoPi) + 1]

\* four consecutive f32 stores at tex_idx .. tex_idx + 3
WriteRgba(texture, tex_idx, c0, c1, c2, c3) ==
    (tex_idx :> c0) @@ (tex_idx + 1 :> c1) @@ (tex_idx + 2 :> c2)
        @@ (tex_idx + 3 :> c3) @@ texture

\* lines 574-588, for the pixel (x, y)
PackTexturesAt(t, x, y, order, result) ==
    IF IsHit(result)
    THEN [t EXCEPT
            ![PositionTexture(order)] =
                WriteRgba(@, PixelIndexAt(x, y) * 4, result.r, Sin(result.phi),
                          Cos(result.phi), Weight(order)),
            ![PhysicsTexture(order)] =
                WriteRgba(@, PixelIndexAt(x, y) * 4, result.energy,
                          result.angular_momentum, result.order, 0)]
    ELSE t

PackTextures(t, order, result) == PackTexturesAt(t, pixel_x, pixel_y, order, result)

\* PositionData::default()
DefaultPosition ==
    [pixel_x |-> 0, pixel_y |-> 0, r |-> 0, theta |-> 0, phi |-> 0, energy |-> 0,
     angular_momentum |-> 0, carter_q |-> 0, affine_parameter |-> 0,
     phi_wraps |-> 0, order |-> 0, hit |-> FALSE, escaped |-> FALSE,
     captured |-> FALSE, aborted |-> FALSE, turns_r |-> 0, turns_theta |-> 0]

\* lines 604-625
HitPositionAt(x, y, result) ==
    [pixel_x |-> x, pixel_y |-> y, r |-> result.r, theta |-> result.theta,
     phi |-> result.phi, energy |-> result.energy,
     angular_momentum |-> result.angular_momentum, carter_q |-> result.carter_q,
     affine_parameter |-> result.affine_parameter, phi_wraps |-> result.phi_wraps,
     order |-> result.order, hit |-> TRUE, escaped |-> FALSE, captured |-> FALSE,
     aborted |-> FALSE, turns_r |-> result.turns_r, turns_theta |-> result.turns_theta]

HitPosition(result) == HitPositionAt(pixel_x, pixel_y, result)

\* a miss record without its termination flag
UnflaggedMiss(x, y, result) ==
    [DefaultPosition EXCEPT !.pixel_x = x, !.pixel_y = y,
                            !.turns_r = result.turns_r,
                            !.turns_theta = result.turns_theta]

\* lines 627-674
MissPositionAt(x, y, result) ==
    [DefaultPosition EXCEPT !.pixel_x = x, !.pixel_y = y,
                            !.escaped = (result.kind = "Escaped"),
                            !.captured = (result.kind = "Captured"),
                            !.aborted = (result.kind = "Aborted"),
                            !.turns_r = result.turns_r,
                            !.turns_theta = result.turns_theta]

MissPosition(result) == MissPositionAt(pixel_x, pixel_y, result)

\* a slot that forgets the stride
UnstridedSlot(idx, order) == idx + order

\* lines 603 and 631: the slot of pixel idx for the given order
HighPrecisionSlot(idx, order) == idx * max_orders + order

\* lines 590-677, for the pixel (x, y): a hit goes to the slot of its own
\* order, a miss is recorded only by the first iteration
PackHighPrecisionAt(table, x, y, order, result) ==
    IF ~high_precision THEN table
    ELSE IF IsHit(result)
         THEN (HighPrecisionSlot(PixelIndexAt(x, y), result.order)
                   :> HitPositionAt(x, y, result)) @@ table
         ELSE IF order = 0
              THEN (HighPrecisionSlot(PixelIndexAt(x, y), 0)
                        :> MissPositionAt(x, y, result)) @@ table
              ELSE table

PackHighPrecision(table, order, result) ==
    PackHighPrecisionAt(table, pixel_x, pixel_y, order, result)

\* render.rs line 193 and one iteration of the loop at transfer_maps.rs 565
PackOrder ==
    /\ pc = "returned"
    /\ pack_order < Len(results)
    /\ tex' = PackTextures(tex, pack_order, results[pack_order + 1])
    /\ hp' = PackHighPrecision(hp, pack_order, results[pack_order + 1])
    /\ pack_order' = pack_order + 1
    /\ UNCHANGED <<gvars, ivars, lvars>>

----------------------------------------------------------------------------
\* Inputs.  A ray is the black hole (Schwarzschild, so r_isco = 6M), the
\* arguments of the integrator, the photon at the camera (distance 50,
\* generate.rs:278), the polar momentum p_th the initializer saw, the envelope
\* of the stepper's outputs along this photon's path, and the pixel.

MaxSteps == 3
MaxOrders == 2
RingSteps == 5
LongSteps == 257

\* generate.rs:43, value_parser range(1..=5)
MaxOrdersCli == 5

CameraPhoton == [r |-> 50, theta |-> 1, phi |-> 0,
                 energy |-> 1, angular_momentum |-> 2, carter_q |-> 3]

Envelope(rs, ths, mids, dphis, errs, rturn, thturn) ==
    [r_range |-> rs, th_range |-> ths, mid_range |-> mids, dphi_range |-> dphis,
     err_range |-> errs, r_turn |-> rturn, th_turn |-> thturn,
     slow_r |-> {}, slow_theta |-> {}]

Ray(m, n, steps, p, env, w, px, py, hpd) ==
    [mass |-> m, max_orders |-> n, max_steps |-> steps, p_th |-> p, traj |-> env,
     width |-> w, height |-> 2, x |-> px, y |-> py, high_precision |-> hpd]

\* radial fates: capture, escape, disc radii inside and outside [r_in, r_out]
RadialRays ==
    {Ray(m, n, MaxSteps, 0,
         Envelope({2, 3, 7, 15, 150, 1500}, {1, 3}, {2}, {1}, {0}, {}, {}),
         2, 1, 1, TRUE) :
        m \in {1, 2}, n \in 1..MaxOrders}

\* polar motion: poles, equator, wrap of theta and phi
PolarRays ==
    {Ray(1, MaxOrders, MaxSteps, p,
         Envelope({15}, {-1, 1, 2, 3, 5}, {2}, {-3, 3}, {0}, {}, {}),
         2, 1, 1, TRUE) :
        p \in {NaN, -1, 0, 1}}

\* step-size control: accepted and rejected error estimates
StepControlRays ==
    {Ray(1, 1, 1, 0,
         Envelope({15}, {1}, {2}, {1}, {0, 1000, 2000, 1000000000}, {}, {}),
         2, 1, 1, TRUE)}

\* a stepper that can produce NaN
NonFiniteRays ==
    {Ray(1, 1, 2, 0,
         Envelope({15, NaN}, {1, 3}, {2}, {1}, {0}, {}, {}),
         2, 1, 1, TRUE)}

\* turning points of the radial and polar potentials
TurningRays ==
    {Ray(1, 1, MaxSteps, 0,
         Envelope({15, 16}, {0, 1}, {2}, {1}, {0}, {16}, {0}),
         2, 1, 1, TRUE)}

\* turning points approached in increments of at most 1e-12: the radii 15
\* and 14 and the polar angles 1 and 0 of these rays are that close
SlowTurnRays ==
    {Ray(1, 1, MaxSteps, p,
         [Envelope({14, 15}, {0, 1}, {2}, {1}, {0}, {14}, {0})
              EXCEPT !.slow_r = {-1, 1}, !.slow_theta = {-1, 1}],
         2, 1, 1, TRUE) :
        p \in {-1, 1}}

\* crossings whose bisection needs many sub-steps, at every step size
DeepBisectRays ==
    {Ray(1, 1, 1, 0,
         Envelope({15}, {1, 3}, {mid}, {1}, {0, 1000000000}, {}, {}),
         2, 1, 1, TRUE) :
        mid \in {1, 3}}

\* photon-ring rays: one equatorial crossing per step, every order the
\* command line accepts
RingRays ==
    {Ray(1, n, RingSteps, 0,
         Envelope({15}, {1, 3}, {2}, {3}, {0}, {}, {}),
         2, 1, 1, TRUE) :
        n \in 1..MaxOrdersCli}

\* every pixel of a 2 x 2 map, with and without the high-precision table
PixelRays ==
    {Ray(1, 1, steps, 0,
         Envelope({15}, {3}, {2}, {1}, {0}, {}, {}),
         2, px, py, hpd) :
        steps \in {0, 1}, px \in {0, 1}, py \in {0, 1}, hpd \in BOOLEAN}

\* one-step rays that are captured or escape at once
FateRays ==
    {Ray(1, 1, 1, 0,
         Envelope({2, 1500}, {1}, {2}, {1}, {0}, {}, {}),
         2, 1, 1, TRUE)}

\* a small set of rays that takes every path through the integrator
CoreRays == StepControlRays \cup DeepBisectRays \cup TurningRays \cup RingRays
                \cup PixelRays \cup FateRays

Rays == CoreRays \cup RadialRays \cup PolarRays \cup NonFiniteRays \cup SlowTurnRays

----------------------------------------------------------------------------
\* The run around the rays: the generate binary (bin/generate.rs, main and
\* save_transfer_maps) or a library caller of Camera::new, RenderConfig::new
\* and render_transfer_maps, and the parallel pixel loop of render.rs.
\* At this level integrate_geodesic_multi_order is a function of the pixel,
\* given by the scene of the run; its result vectors have the shape the
\* integrator produces (the hits first, in order, then one repeated fate).

\* process exit codes: still running, Ok(()) from main, Err from main, panic
Running == -1
ExitSuccess == 0
ExitFailure == 1
ExitPanic == 101

Ok(v) == [ok |-> TRUE, value |-> <<v>>]
Err == [ok |-> FALSE, value |-> <<>>]

\* generate.rs 68-79
parse_camera_angle(preset) ==
    CASE preset = "30deg" -> Ok(30)
      [] preset = "45deg" -> Ok(45)
      [] preset = "60deg" -> Ok(60)
      [] preset = "75deg" -> Ok(75)
      [] OTHER -> Err

\* generate.rs 82-92; the spin in tenths
parse_black_hole_type(bh_type) ==
    CASE bh_type = "prograde" -> Ok([spin |-> 9, direction |-> "Prograde"])
      [] bh_type = "retrograde" -> Ok([spin |-> 9, direction |-> "Retrograde"])
      [] bh_type = "schwarzschild" -> Ok([spin |-> 0, direction |-> "Prograde"])
      [] OTHER -> Err

\* types.rs 271-276; the asserts panic
CameraNew(distance, inclination, fov) ==
    IF distance > 0 /\ inclination >= 0 /\ inclination <= 90 /\ fov > 0 /\ fov < 180
    THEN Ok([distance |-> distance, inclination |-> inclination, fov |-> fov])
    ELSE Err

\* types.rs 370-374; the asserts panic
RenderConfigNew(w, ht, n) ==
    IF (w > 0 /\ ht > 0) /\ (n > 0 /\ n <= 3)
    THEN Ok([width |-> w, height |-> ht, max_orders |-> n])
    ELSE Err

\* generate.rs 43: the values clap accepts for --max-orders
CliAcceptsOrders(n) == n >= 1 /\ n <= MaxOrdersCli

\* transfer_maps.rs 99-102
HasOrder1Url(orders) == orders > 1
HasOrder2Url(orders) == orders > 2

\* transfer_maps.rs 86-103: the URL fields that are Some, by file name (every
\* URL is base_url followed by "/" and the file name)
ManifestUrls(orders) ==
    [key \in {"t1_url", "t2_url", "flux_url"}
            \cup (IF HasOrder1Url(orders) THEN {"t3_url", "t4_url"} ELSE {})
            \cup (IF HasOrder2Url(orders) THEN {"t5_url", "t6_url"} ELSE {}) |->
        CASE key = "t1_url" -> "t1_rgba32f.bin"
          [] key = "t2_url" -> "t2_rgba32f.bin"
          [] key = "t3_url" -> "t3_rgba32f.bin"
          [] key = "t4_url" -> "t4_rgba32f.bin"
          [] key = "t5_url" -> "t5_rgba32f.bin"
          [] key = "t6_url" -> "t6_rgba32f.bin"
          [] OTHER -> "flux_r32f.bin"]

\* transfer_maps.rs 45-111
ManifestNew(w, ht, preset, inclination, spin, orders, hits) ==
    [width |-> w, height |-> ht, preset |-> preset, inclination |-> inclination,
     spin |-> spin, orders |-> orders, urls |-> ManifestUrls(orders),
     disc_hits |-> hits]

\* generate.rs 164 and 181
WritesOrder1Files(n) == n > 1
WritesAboveThree(n) == n > 3
WritesOrder2Files(n) == n > 2

\* generate.rs 139-241: the files save_transfer_maps writes
SavedFiles(n, hpd, gzip) ==
    {"t1_rgba32f.bin", "t2_rgba32f.bin", "flux_r32f.bin", "manifest.json"}
        \cup (IF WritesOrder1Files(n) THEN {"t3_rgba32f.bin", "t4_rgba32f.bin"} ELSE {})
        \cup (IF WritesOrder2Files(n) THEN {"t5_rgba32f.bin", "t6_rgba32f.bin"} ELSE {})
        \cup (IF ~hpd THEN {}
              ELSE IF gzip THEN {"high_precision.json.gz"} ELSE {"high_precision.json"})

\* coordinates.rs 16-41 for the camera position of types.rs 321-323: the
\* polar angle of the ray origin, to the nearest multiple of pi/4
OriginTheta(cam) == (cam.inclination * PI + 90) \div 180

\* types.rs 566: the bound of the debug assertion, in units of 1e-15
NullInvariantLimit == 100000

\* geodesic.rs 363-369 at the ray origin: det = g_tt g_phph - g_tphi^2 is 0
\* where sin(theta) = 0, so k^t = 0/0
InitialNullInvariant(th0) == IF Sin(th0) = 0 THEN NaN ELSE 0

\* types.rs 430-451 and 484-573.  sin^2(theta_0) is clamped to 1e-300 (line
\* 534) and the tuple is returned; the only check is the debug assertion of
\* lines 564-569, compiled in debug builds only.  On the axis g_phph = 0, so
\* L_z = p_phi = 0.
to_photon_state(cam, p_th, bld) ==
    IF bld = "debug" /\ ~FLt(InitialNullInvariant(OriginTheta(cam)), NullInvariantLimit)
    THEN [kind |-> "panic", energy |-> 0, angular_momentum |-> 0, carter_q |-> 0,
          sign_theta |-> 0]
    ELSE [kind |-> "values", energy |-> CameraPhoton.energy,
          angular_momentum |-> IF Sin(OriginTheta(cam)) = 0 THEN 0
                               ELSE CameraPhoton.angular_momentum,
          carter_q |-> CameraPhoton.carter_q,
          sign_theta |-> InitialSignTheta(p_th)]

\* types.rs 298-299 and render.rs 101, 146: width - 1 and height - 1 in u32
\* overflow when the dimension is 0; a debug build panics, a release build wraps
DimensionUnderflows(cfg) == cfg.width = 0 \/ cfg.height = 0

\* the ray of pixel (x, y) in the scene: how often it crosses the disc before
\* it ends, how it ends, and the polar momentum the initializer sees
SceneRay(sc, x, y) == sc[((x + y) % 2) + 1]

SceneHit(x, y, k) ==
    [kind |-> "DiscHit", r |-> 7 + k, theta |-> Equator, phi |-> (x + 2 * y + k) % TwoPi,
     energy |-> CameraPhoton.energy, angular_momentum |-> CameraPhoton.angular_momentum,
     carter_q |-> CameraPhoton.carter_q, affine_parameter |-> H0 * (k + 1),
     phi_wraps |-> (x + 2 * y + k) % TwoPi, order |-> k, turns_r |-> 0, turns_theta |-> k]

SceneFate(fate, turns) ==
    CASE fate = "Captured" -> Captured(0, turns)
      [] fate = "Aborted" -> Aborted(0, turns)
      [] OTHER -> Escaped(1, turns)

\* render.rs 177-185
SceneResults(sc, x, y, n) ==
    [k \in 1..n |->
        IF k <= SceneRay(sc, x, y).crossings
        THEN SceneHit(x, y, k - 1)
        ELSE SceneFate(SceneRay(sc, x, y).fate, SceneRay(sc, x, y).crossings)]

\* render.rs 188-190
EveryHit(res) == Cardinality({k \in DOMAIN res : IsHit(res[k])})

HitIncrement(res) == IF IsHit(res[1]) THEN 1 ELSE 0

\* the f32 elements pack_pixel_multi_order stores for one result (lines 574-588)
TextureStores(x, y, order, result) ==
    IF IsHit(result)
    THEN {<<name, PixelIndexAt(x, y) * 4 + j>> :
            name \in {PositionTexture(order), PhysicsTexture(order)}, j \in 0..3}
    ELSE {}

\* the high-precision slot it stores (lines 601-603, 628-631)
HighPrecisionStores(x, y, order, result) ==
    IF ~high_precision THEN {}
    ELSE IF IsHit(result)
         THEN {<<"hp", HighPrecisionSlot(PixelIndexAt(x, y), result.order)>>}
         ELSE IF order = 0
              THEN {<<"hp", HighPrecisionSlot(PixelIndexAt(x, y), 0)>>}
              ELSE {}

Workers == {"w1", "w2"}

\* one more occurrence of e in the bag b
BagAdd(b, e) == IF e \in DOMAIN b THEN [b EXCEPT ![e] = @ + 1] ELSE (e :> 1) @@ b

IdleWorker == [pc |-> "idle", x |-> 0, y |-> 0, k |-> 0, count |-> 0,
               photon |-> [kind |-> "none", energy |-> 0, angular_momentum |-> 0,
                           carter_q |-> 0, sign_theta |-> 0]]

\* what the run leaves alone of the per-ray machine
rayvars == <<photon, traj, initial_sign_theta, r_disc_inner, r_disc_outer, max_steps,
             pixel_x, pixel_y, lvars, pack_order>>

\* the fields of TransferMaps
mapvars == <<width, height, max_orders, high_precision, tex, hp, manifest>>

\* the inputs of the run
runvars == <<client, build, args, scene, uvars>>

\* the shared state of the pixel loop
loopvars == <<rows, workers, disc_hits, pixels_processed, pb_position, traced, stores>>

\* generate.rs 263-268: an unknown label ends main with Err
MainRejects ==
    /\ gpc = "main"
    /\ client = "generate"
    /\ ~parse_black_hole_type(args.black_hole_type).ok \/ ~parse_camera_angle(args.preset).ok
    /\ gpc' = "exit"
    /\ exit_code' = ExitFailure
    /\ UNCHANGED <<rayvars, mapvars, runvars, loopvars, black_hole, camera, config, files>>

\* generate.rs 263-288: labels parsed, black hole, camera and the RenderConfig
\* struct literal (RenderConfig::new is not called)
MainConfigures ==
    /\ gpc = "main"
    /\ client = "generate"
    /\ parse_black_hole_type(args.black_hole_type).ok
    /\ parse_camera_angle(args.preset).ok
    /\ black_hole' = [mass |-> 1, spin |-> parse_black_hole_type(args.black_hole_type).value[1].spin]
    /\ camera' = CameraNew(50, parse_camera_angle(args.preset).value[1], 120).value[1]
    /\ config' = [width |-> args.width, height |-> args.height, max_orders |-> args.max_orders]
    /\ gpc' = "render"
    /\ UNCHANGED <<rayvars, mapvars, runvars, loopvars, exit_code, files>>

\* a library caller whose Camera::new or RenderConfig::new panics
LibraryRejected ==
    /\ gpc = "main"
    /\ client = "library"
    /\ ~CameraNew(50, args.inclination, 120).ok
           \/ ~RenderConfigNew(args.width, args.height, args.max_orders).ok
    /\ gpc' = "exit"
    /\ exit_code' = ExitPanic
    /\ UNCHANGED <<rayvars, mapvars, runvars, loopvars, black_hole, camera, config, files>>

\* a library caller with a camera and a configuration the constructors accept
LibraryConfigures ==
    /\ gpc = "main"
    /\ client = "library"
    /\ CameraNew(50, args.inclination, 120).ok
    /\ RenderConfigNew(args.width, args.height, args.max_orders).ok
    /\ black_hole' = [mass |-> 1, spin |-> parse_black_hole_type(args.black_hole_type).value[1].spin]
    /\ camera' = CameraNew(50, args.inclination, 120).value[1]
    /\ config' = RenderConfigNew(args.width, args.height, args.max_orders).value[1]
    /\ gpc' = "render"
    /\ UNCHANGED <<rayvars, mapvars, runvars, loopvars, exit_code, files>>

\* render.rs 76-102: the first diagnostic sample ray panics, in generate_ray
\* (dimension 0) or in the initializer's debug assertion
PrologueFails ==
    \/ build = "debug" /\ DimensionUnderflows(config)
    \/ to_photon_state(camera, 0, build).kind = "panic"

RenderPanics ==
    /\ gpc = "render"
    /\ PrologueFails
    /\ gpc' = "exit"
    /\ exit_code' = ExitPanic
    /\ UNCHANGED <<rayvars, mapvars, runvars, loopvars, black_hole, camera, config, files>>

\* render.rs 36-164: manifest, TransferMaps::new, flux LUT, counters, diagnostics
RenderPrologue ==
    /\ gpc = "render"
    /\ ~PrologueFails
    /\ width' = config.width
    /\ height' = config.height
    /\ max_orders' = config.max_orders
    /\ high_precision' = args.export_precision
    /\ tex' = [t \in TextureNames |-> <<>>]
    /\ hp' = <<>>
    /\ manifest' = ManifestNew(config.width, config.height, args.preset,
                               camera.inclination, black_hole.spin, config.max_orders, 0)
    /\ rows' = 0..(config.height - 1)
    /\ disc_hits' = 0
    /\ pixels_processed' = 0
    /\ gpc' = "workers"
    /\ UNCHANGED <<rayvars, runvars, workers, pb_position, traced, stores,
                   black_hole, camera, config, exit_code, files>>

\* render.rs 168: a worker thread of the pool takes one of the rows; with
\* width 0 the row's loop body never runs
ClaimRow(t) ==
    /\ gpc = "workers"
    /\ workers[t].pc = "idle"
    /\ \E y \in rows :
          /\ rows' = rows \ {y}
          /\ workers' = [workers EXCEPT ![t] =
                            IF width = 0 THEN IdleWorker
                            ELSE [IdleWorker EXCEPT !.pc = "trace", !.y = y]]
    /\ UNCHANGED <<rayvars, mapvars, runvars, disc_hits, pixels_processed, pb_position,
                   traced, stores, black_hole, camera, config, gpc, exit_code, files>>

\* render.rs 171-190: ray, photon state, integration, disc_hits.fetch_add
TracePixel(t) ==
    /\ gpc = "workers"
    /\ workers[t].pc = "trace"
    /\ LET w == workers[t]
           init == to_photon_state(camera, SceneRay(scene, w.x, w.y).p_th, build)
           res == SceneResults(scene, w.x, w.y, max_orders)
       IN  IF init.kind = "panic"
           THEN /\ gpc' = "exit"
                /\ exit_code' = ExitPanic
                /\ UNCHANGED <<workers, traced, disc_hits>>
           ELSE /\ workers' = [workers EXCEPT ![t].pc = "pack", ![t].k = 0,
                                              ![t].photon = init]
                /\ traced' = BagAdd(traced, <<w.x, w.y, t>>)
                /\ disc_hits' = disc_hits + HitIncrement(res)
                /\ UNCHANGED <<gpc, exit_code>>
    /\ UNCHANGED <<rayvars, mapvars, runvars, rows, pixels_processed, pb_position,
                   stores, black_hole, camera, config, files>>

\* render.rs 193, one iteration of the loop at transfer_maps.rs 565: plain
\* stores through raw pointers into the shared buffers
PackPixelOrder(t) ==
    /\ gpc = "workers"
    /\ workers[t].pc = "pack"
    /\ LET w == workers[t]
           result == SceneResults(scene, w.x, w.y, max_orders)[w.k + 1]
       IN  /\ tex' = PackTexturesAt(tex, w.x, w.y, w.k, result)
           /\ hp' = PackHighPrecisionAt(hp, w.x, w.y, w.k, result)
           /\ stores' = stores \cup
                  {<<s[1], s[2], <<w.x, w.y>>>> :
                      s \in TextureStores(w.x, w.y, w.k, result)
                              \cup HighPrecisionStores(w.x, w.y, w.k, result)}
           /\ workers' = [workers EXCEPT ![t].k = w.k + 1,
                              ![t].pc = IF w.k + 1 < max_orders THEN "pack" ELSE "count"]
    /\ UNCHANGED <<rayvars, runvars, width, height, max_orders, high_precision, manifest,
                   rows, disc_hits, pixels_processed, pb_position, traced,
                   black_hole, camera, config, gpc, exit_code, files>>

\* render.rs 196: pixels_processed.fetch_add(1) + 1
CountPixel(t) ==
    /\ gpc = "workers"
    /\ workers[t].pc = "count"
    /\ pixels_processed' = pixels_processed + 1
    /\ workers' = [workers EXCEPT ![t].pc = "report", ![t].count = pixels_processed + 1]
    /\ UNCHANGED <<rayvars, mapvars, runvars, rows, disc_hits, pb_position, traced,
                   stores, black_hole, camera, config, gpc, exit_code, files>>

\* render.rs 197 and the end of the loop body: the callback, then the next
\* pixel of the row or the end of the row
ProgressCallback(t) ==
    /\ gpc = "workers"
    /\ workers[t].pc = "report"
    /\ pb_position' = workers[t].count
    /\ workers' = [workers EXCEPT ![t] =
                      IF workers[t].x + 1 < width
                      THEN [@ EXCEPT !.pc = "trace", !.x = @ + 1]
                      ELSE [@ EXCEPT !.pc = "idle"]]
    /\ UNCHANGED <<rayvars, mapvars, runvars, rows, disc_hits, pixels_processed,
                   traced, stores, black_hole, camera, config, gpc, exit_code, files>>

\* render.rs 199-204: for_each returns when every row is done; the manifest
\* gets the counter and the maps are returned
Join ==
    /\ gpc = "workers"
    /\ rows = {}
    /\ \A t \in Workers : workers[t].pc = "idle"
    /\ manifest' = [manifest EXCEPT !.disc_hits = disc_hits]
    /\ gpc' = IF client = "generate" THEN "save" ELSE "exit"
    /\ exit_code' = IF client = "generate" THEN exit_code ELSE ExitSuccess
    /\ UNCHANGED <<rayvars, runvars, loopvars, width, height, max_orders, high_precision,
                   tex, hp, black_hole, camera, config, files>>

\* generate.rs 339-362: save_transfer_maps and Ok(())
SaveTransferMaps ==
    /\ gpc = "save"
    /\ files' = SavedFiles(max_orders, high_precision, args.gzip)
    /\ gpc' = "exit"
    /\ exit_code' = ExitSuccess
    /\ UNCHANGED <<rayvars, mapvars, runvars, loopvars, black_hole, camera, config>>

----------------------------------------------------------------------------
\* long rays that keep turning, radially or in theta, without ever crossing
\* (every step is accepted with an error at the tolerance, so h shrinks slowly)
LongRays ==
    {Ray(1, 1, LongSteps, 0, env, 2, 1, 1, TRUE) :
        env \in {Envelope({15, 16}, {1}, {2}, {0}, {1000}, {}, {}),
                 Envelope({15}, {0, 1}, {2}, {0}, {1000}, {}, {})}}

\* Inputs of a run.  The maps have two columns and MapRows rows; a map with
\* one row has no finite ray (generate_ray divides by height - 1).

MapRows == 2

RayKind(c, fate, p) == [crossings |-> c, fate |-> fate, p_th |-> p]

\* rays that miss, that hit once and fall in, that hit at every order, that abort
Dark == RayKind(0, "Escaped", 1)
Grazing == RayKind(1, "Captured", -1)
Ring == RayKind(MaxOrdersCli, "Escaped", 0)
Stalled == RayKind(0, "Aborted", NaN)

Scenes == {<<Ring, Ring>>, <<Dark, Grazing>>, <<Dark, Ring>>, <<Stalled, Dark>>}

Args(preset, bh_type, inclination, w, ht, n, hpd, gz) ==
    [preset |-> preset, black_hole_type |-> bh_type, inclination |-> inclination,
     width |-> w, height |-> ht, max_orders |-> n, export_precision |-> hpd,
     gzip |-> gz]

Run(c, b, a, sc) == [client |-> c, build |-> b, args |-> a, scene |-> sc]

Builds == {"debug", "release"}

\* known and unknown labels on the command line
LabelRuns ==
    {Run("generate", "release", Args(preset, bh_type, 0, 2, MapRows, 1, FALSE, FALSE),
         <<Dark, Dark>>) :
        preset \in {"45deg", "90deg"}, bh_type \in {"prograde", "kerr"}}

\* a width or a height of 0 on the command line
ZeroSizeRuns ==
    {Run("generate", b, Args("45deg", "schwarzschild", 0, w, ht, MaxOrders, TRUE, FALSE),
         <<Ring, Ring>>) :
        b \in Builds, w \in {0, 2}, ht \in {0, MapRows}} \
    {Run("generate", b, Args("45deg", "schwarzschild", 0, 2, MapRows, MaxOrders, TRUE, FALSE),
         <<Ring, Ring>>) :
        b \in Builds}

\* every --max-orders the command line accepts, on a map of one row
OrderRuns ==
    {Run("generate", "release",
         Args("60deg", "retrograde", 0, 2, 1, n, TRUE, n > 2),
         <<Stalled, Stalled>>) :
        n \in 1..MaxOrdersCli}

\* every scene with the high-precision table, one without it, and one with
\* more orders than texture pairs
SceneRuns ==
    {Run("generate", "debug",
         Args("75deg", "prograde", 0, 2, MapRows, MaxOrders, TRUE, FALSE), sc) :
        sc \in Scenes}
    \cup
    {Run("generate", "debug",
         Args("30deg", "schwarzschild", 0, 2, MapRows, MaxOrders, FALSE, FALSE),
         <<Dark, Ring>>),
     Run("generate", "release",
         Args("45deg", "prograde", 0, 2, MapRows, 4, TRUE, TRUE), <<Ring, Ring>>)}

\* a library caller: inclinations from the pole to beyond the equator, orders
\* around both ends of the accepted range
LibraryRuns ==
    {Run("library", b,
         Args("custom", "schwarzschild", inc, 2, MapRows, n, TRUE, FALSE),
         <<Grazing, Dark>>) :
        b \in Builds, inc \in {0, 91}, n \in {0, 1, 4, MaxOrdersCli, MaxOrdersCli + 1}}
    \cup
    {Run("library", "release",
         Args("custom", "schwarzschild", 45, w, ht, 3, FALSE, FALSE), <<Dark, Dark>>) :
        w \in {0, 2}, ht \in {0, MapRows}}

Runs == LabelRuns \cup ZeroSizeRuns \cup OrderRuns \cup SceneRuns \cup LibraryRuns

----------------------------------------------------------------------------
\* disc_model.rs.  Radii in whole length units, sqrt(r_isco / r) in units of
\* 1e-4, emissivity in units of 1e-6.

MaxSamples == 15

\* floor of the square root, by bisection
RECURSIVE SqrtBetween(_, _, _)
SqrtBetween(n, lo, hi) ==
    IF lo = hi THEN lo
    ELSE LET mid == (lo + hi + 1) \div 2
         IN  IF mid * mid <= n THEN SqrtBetween(n, mid, hi)
             ELSE SqrtBetween(n, lo, mid - 1)

\* f64::sqrt of a ratio in [0, 1], argument and result in units of 1e-4
SqrtRatio(x) == SqrtBetween(x * 10000, 0, 10000)

\* novikov_thorne_emissivity: falloff * isco_term * normalization
\*   = r^-3 * (1 - sqrt(r_isco / r)) * 2 r_isco^3, the three factors r_isco / r
\* applied one after the other (each rounded down to 1e-6).  A NaN radius
\* fails the test r < r_isco and goes through the arithmetic.
novikov_thorne_emissivity(r, r_isco) ==
    IF FLt(r, r_isco) THEN 0
    ELSE IF IsNaN(r) \/ IsNaN(r_isco) THEN NaN
    ELSE LET r_ratio   == (r_isco * 10000) \div r
             isco_term == 10000 - SqrtRatio(r_ratio)
             once      == ((2 * 100 * isco_term) * r_isco) \div r
             twice     == (once * r_isco) \div r
         IN  (twice * r_isco) \div r

\* `flux as f32`: 24 significant bits, NaN stays NaN
RECURSIVE AsF32(_)
AsF32(x) ==
    IF IsNaN(x) THEN NaN
    ELSE IF x < 0 THEN 0 - AsF32(0 - x)
    ELSE IF x < 16777216 THEN x
    ELSE 2 * AsF32(x \div 2)

\* generate_flux_lut lines 52-53: r = r_min + t * (r_max - r_min) with
\* t = i / (samples - 1) in f64; 0.0 / 0.0 is NaN
SampleRadius(call, i) ==
    IF call.samples - 1 = 0
    THEN (IF i = 0 THEN NaN ELSE call.r_min + (call.r_max - call.r_min))
    ELSE call.r_min + (i * (call.r_max - call.r_min)) \div (call.samples - 1)

\* generate_flux_lut lines 52-58: the value pushed for index i
FluxSample(call, i) ==
    AsF32(novikov_thorne_emissivity(SampleRadius(call, i), call.r_isco))

\* generate_flux_lut: one iteration of `for i in 0..samples`
FluxLutPush ==
    /\ flux.pc = "loop"
    /\ flux.i < flux.samples
    /\ flux' = [flux EXCEPT !.lut = Append(@, FluxSample(flux, flux.i)), !.i = @ + 1]
    /\ UNCHANGED <<ivars, lvars, pvars, mainvars, stats, updates>>

\* generate_flux_lut: the loop is over and lut is returned
FluxLutReturn ==
    /\ flux.pc = "loop"
    /\ ~(flux.i < flux.samples)
    /\ flux' = [flux EXCEPT !.pc = "returned"]
    /\ UNCHANGED <<ivars, lvars, pvars, mainvars, stats, updates>>

----------------------------------------------------------------------------
\* validation.rs, ValidationStats.  Errors in units of 1e-10; the mean is kept
\* as the exact fraction num / den of the values the f64 arithmetic rounds.

MaxUpdates == 3

\* |g k k| of a null geodesic is small and not negative; update takes any f64
InvariantErrors == {-1, 0, 1, 2, 5}

\* ValidationStats::new
ValidationStatsNew ==
    [max_invariant_error |-> 0, mean_invariant_error |-> [num |-> 0, den |-> 1],
     sample_count |-> 0]

\* a mean that gives the new sample the weight of all the earlier ones
HalvingMean(mean, n, err) ==
    [num |-> mean.num + err * mean.den, den |-> mean.den * 2]

\* line 102: (self.mean_invariant_error * n + error) / (n + 1.0)
RunningMean(mean, n, err) ==
    [num |-> mean.num * n + err * mean.den, den |-> mean.den * (n + 1)]

\* ValidationStats::update
ValidationStatsUpdate(st, err) ==
    [max_invariant_error |-> FMax(st.max_invariant_error, err),
     mean_invariant_error |-> RunningMean(st.mean_invariant_error, st.sample_count, err),
     sample_count |-> st.sample_count + 1]

\* a caller updates the statistics with one more error
StatsUpdate ==
    /\ Len(updates) < MaxUpdates
    /\ \E err \in InvariantErrors :
        /\ stats' = ValidationStatsUpdate(stats, err)
        /\ updates' = Append(updates, err)
    /\ UNCHANGED <<ivars, lvars, pvars, mainvars, flux>>

\* the per-ray machine at rest (the run takes the rays from its scene)
NoRay ==
    /\ black_hole = [mass |-> 1, spin |-> 0]
    /\ photon = CameraPhoton
    /\ traj = Envelope({}, {}, {}, {}, {}, {}, {})
    /\ initial_sign_theta = 1
    /\ r_disc_inner = IscoRadius([mass |-> 1, spin |-> 0])
    /\ r_disc_outer = DiscOuterRadius
    /\ max_steps = 0
    /\ pixel_x = 0
    /\ pixel_y = 0
    /\ state = NewIntegrationState(CameraPhoton, 1)
    /\ results = <<>>
    /\ disc_crossings = 0
    /\ turns_r = 0
    /\ turns_theta = 0
    /\ prev_sign_r = -1
    /\ prev_sign_theta = 1
    /\ h = H0
    /\ steps_taken = 0
    /\ pc = "returned"
    /\ prev = NoLocal
    /\ error = NoLocal
    /\ bis = NoLocal
    /\ step_signs = <<-1, 1>>
    /\ exact_state = NoLocal
    /\ azimuth = CameraPhoton.phi
    /\ last_trial = NoLocal
    /\ side = 0
    /\ pack_order = 0

\* the state of a run before main (or the library caller) starts: no maps yet
RunFrom(runs) ==
    \E run \in runs :
        /\ client = run.client
        /\ build = run.build
        /\ args = run.args
        /\ scene = run.scene
        /\ gpc = "main"
        /\ exit_code = Running
        /\ camera = NoLocal
        /\ config = NoLocal
        /\ rows = {}
        /\ workers = [t \in Workers |-> IdleWorker]
        /\ disc_hits = 0
        /\ pixels_processed = 0
        /\ pb_position = 0
        /\ manifest = NoLocal
        /\ files = {}
        /\ traced = <<>>
        /\ stores = {}

\* no flux table asked for, a new ValidationStats
UnitsAtRest ==
    /\ flux = [pc |-> "returned", r_min |-> 0, r_max |-> 0, r_isco |-> 0, samples |-> 0,
               i |-> 0, lut |-> <<>>]
    /\ stats = ValidationStatsNew
    /\ updates = <<>>

\* one ray looked at on its own: a pixel of a run whose loop is under way
OneRayOfARun ==
    /\ client = "library"
    /\ build = "release"
    /\ args = NoLocal
    /\ scene = NoLocal
    /\ gpc = "ray"
    /\ exit_code = Running
    /\ camera = NoLocal
    /\ config = NoLocal
    /\ rows = {}
    /\ workers = [t \in Workers |-> IdleWorker]
    /\ disc_hits = 0
    /\ pixels_processed = 0
    /\ pb_position = 0
    /\ manifest = NoLocal
    /\ files = {}
    /\ traced = <<>>
    /\ stores = {}

InitFrom(rays) ==
    \E ray \in rays :
        /\ black_hole = [mass |-> ray.mass, spin |-> 0]
        /\ photon = CameraPhoton
        /\ traj = ray.traj
        /\ initial_sign_theta = InitialSignTheta(ray.p_th)
        /\ r_disc_inner = IscoRadius([mass |-> ray.mass, spin |-> 0])
        /\ r_disc_outer = DiscOuterRadius
        /\ max_orders = ray.max_orders
        /\ max_steps = ray.max_steps
        /\ width = ray.width
        /\ height = ray.height
        /\ pixel_x = ray.x
        /\ pixel_y = ray.y
        /\ high_precision = ray.high_precision
        /\ state = NewIntegrationState(CameraPhoton, InitialSignTheta(ray.p_th))
        /\ results = [k \in 1..ray.max_orders |-> Escaped(0, 0)]
        /\ disc_crossings = 0
        /\ turns_r = 0
        /\ turns_theta = 0
        /\ prev_sign_r = -1
        /\ prev_sign_theta = InitialSignTheta(ray.p_th)
        /\ h = H0
        /\ steps_taken = 0
        /\ pc = "loop"
        /\ prev = NoLocal
        /\ error = NoLocal
        /\ bis = NoLocal
        /\ step_signs = <<-1, InitialSignTheta(ray.p_th)>>
        /\ exact_state = NoLocal
        /\ azimuth = CameraPhoton.phi
        /\ last_trial = NoLocal
        /\ side = 0
        /\ tex = [t \in TextureNames |-> <<>>]
        /\ hp = <<>>
        /\ pack_order = 0
        /\ OneRayOfARun
        /\ UnitsAtRest

Init == InitFrom(Rays)

CoreInit == InitFrom(CoreRays \cup NonFiniteRays)

LongInit == InitFrom(CoreRays \cup LongRays)

Next ==
    \/ RejectStep
    \/ AcceptCaptured
    \/ AcceptEscaped
    \/ AcceptCrossing
    \/ AcceptContinue
    \/ BisectConverged
    \/ BisectIterate
    \/ BisectIntervalClosed
    \/ BisectExhausted
    \/ StepBudgetExhausted
    \/ PackOrder

Spec == Init /\ [][Next]_vars

\* the same machine on the core rays and the long rays
LongSpec == LongInit /\ [][Next]_vars

\* the integrator is sequential code that keeps executing: some step is taken
\* whenever one is possible
FairSpec == CoreInit /\ [][Next]_vars /\ WF_vars(Next)

\* a run of the generator or of a library caller
RunInit ==
    /\ RunFrom(Runs)
    /\ NoRay
    /\ width = 0
    /\ height = 0
    /\ max_orders = 0
    /\ high_precision = FALSE
    /\ tex = [t \in TextureNames |-> <<>>]
    /\ hp = <<>>
    /\ UnitsAtRest

RunNext ==
    \/ MainRejects
    \/ MainConfigures
    \/ LibraryRejected
    \/ LibraryConfigures
    \/ RenderPanics
    \/ RenderPrologue
    \/ \E t \in Workers : ClaimRow(t)
    \/ \E t \in Workers : TracePixel(t)
    \/ \E t \in Workers : PackPixelOrder(t)
    \/ \E t \in Workers : CountPixel(t)
    \/ \E t \in Workers : ProgressCallback(t)
    \/ Join
    \/ SaveTransferMaps

RunSpec == RunInit /\ [][RunNext]_vars

\* the stand-alone units: one generate_flux_lut call and one ValidationStats.
\* The sample radii of a call fall on the length grid.
OnGrid(call) ==
    call.samples <= 1 \/ (call.r_max - call.r_min) % (call.samples - 1) = 0

FluxCalls ==
    {call \in [pc : {"loop"}, r_min : {1, 4, 6, 8}, r_max : {8, DiscOuterRadius},
               r_isco : {1, 6}, samples : 0..MaxSamples, i : {0}, lut : {<<>>}] :
        OnGrid(call)}

UnitInit ==
    /\ NoRay
    /\ OneRayOfARun
    /\ width = 0
    /\ height = 0
    /\ max_orders = 0
    /\ high_precision = FALSE
    /\ tex = [t \in TextureNames |-> <<>>]
    /\ hp = <<>>
    /\ flux \in FluxCalls
    /\ stats = ValidationStatsNew
    /\ updates = <<>>

UnitNext ==
    \/ FluxLutPush
    \/ FluxLutReturn
    \/ StatsUpdate

UnitSpec == UnitInit /\ [][UnitNext]_vars

----------------------------------------------------------------------------
\* Properties of the run

\* the pixels some worker has traced so far
TracedPixels == {<<e[1], e[2]>> : e \in DOMAIN traced}

MapPixels == {<<x, y>> : x \in 0..(width - 1), y \in 0..(height - 1)}

\* render_transfer_maps has returned
LoopEnded == gpc = "save" \/ (gpc = "exit" /\ exit_code = ExitSuccess)

\* C11: in the parallel pixel loop no buffer element and no high-precision
\* slot is ever stored for two different pixels (stores holds one entry per
\* element and pixel), every pixel is traced by one thread and at most once
\* (exactly once when the loop has ended), and every
\* store of pixel (x, y) falls in (y*W+x)*4 .. +3 of a texture or in
\* (y*W+x)*N .. +N-1 of the high-precision table.
C11_DisjointStores ==
    /\ Cardinality({<<s[1], s[2]>> : s \in stores}) = Cardinality(stores)
    /\ \A e \in DOMAIN traced : traced[e] = 1
    /\ Cardinality(TracedPixels) = Cardinality(DOMAIN traced)
    /\ LoopEnded => TracedPixels = MapPixels
    /\ \A s \in stores :
           LET idx == s[3][2] * width + s[3][1]
           IN  IF s[1] = "hp"
               THEN s[2] \in (idx * max_orders)..(idx * max_orders + max_orders - 1)
               ELSE s[1] \in TextureNames /\ s[2] \in (idx * 4)..(idx * 4 + 3)

\* two threads are packing different pixels at the same time and both have
\* stored into the textures and the high-precision table
C11_Witness ==
    /\ gpc = "workers"
    /\ \A t \in Workers : workers[t].pc = "pack" /\ workers[t].k >= 1
    /\ \A t \in Workers :
           \E s1 \in stores : \E s2 \in stores :
               /\ s1[3] = <<workers[t].x, workers[t].y>> /\ s1[1] = "hp"
               /\ s2[3] = <<workers[t].x, workers[t].y>> /\ s2[1] = "t1"
    /\ workers["w1"].y # workers["w2"].y

----------------------------------------------------------------------------
\* Properties

\* C1: the result vector always has max_orders entries; with c crossings
\* recorded, slots 0..c-1 are disc hits whose order is their index and no
\* later slot is a hit; a slot that holds a hit is never written again; and
\* on return the slots from c on all hold one and the same non-hit outcome.
C1_ResultSlots ==
    /\ [](LET c == IF disc_crossings < max_orders THEN disc_crossings ELSE max_orders
          IN  /\ Len(results) = max_orders
              /\ \A k \in 1..c : IsHit(results[k]) /\ results[k].order = k - 1
              /\ \A k \in (c + 1)..Len(results) :
                    /\ ~IsHit(results[k])
                    /\ pc = "returned" => results[k] = results[c + 1])
    /\ [][\A k \in 1..Len(results) :
            IsHit(results[k]) => results'[k] = results[k]]_vars

\* a five-order ray returned with three hits and two equal miss slots
C1_Witness ==
    /\ pc = "returned"
    /\ max_orders = 5
    /\ disc_crossings = 3
    /\ ~IsHit(results[4])
    /\ results[4] = results[5]

\* C2: every recorded hit has r_disc_inner <= r <= r_disc_outer, r being the
\* radius of the refined crossing state; a handled crossing whose refined
\* radius is in range advances the crossing counter by one, and one whose
\* refined radius is out of range writes no slot and leaves the counter.
C2_HitsInsideDisc ==
    /\ [](\A k \in 1..Len(results) :
            IsHit(results[k]) =>
                FLe(r_disc_inner, results[k].r) /\ FLe(results[k].r, r_disc_outer))
    /\ [][((InLoop \/ pc = "bisect") /\ exact_state' # NoLocal) =>
            IF FLe(r_disc_inner, exact_state'.r) /\ FLe(exact_state'.r, r_disc_outer)
            THEN /\ disc_crossings' = disc_crossings + 1
                 /\ disc_crossings < max_orders =>
                        results'[disc_crossings + 1].r = exact_state'.r
            ELSE /\ results' = results
                 /\ disc_crossings' = disc_crossings]_vars

\* after one hit, a second crossing was refined to a radius outside the disc
C2_Witness ==
    /\ pc = "loop"
    /\ exact_state # NoLocal
    /\ ~(FLe(r_disc_inner, exact_state.r) /\ FLe(exact_state.r, r_disc_outer))
    /\ disc_crossings = 1
    /\ IsHit(results[1])

\* C3: no state from which the loop takes a further step lies inside the
\* capture radius: such a state (and the state a bisection sub-step starts
\* from) has r > r_horizon; and an accepted step that ends with
\* r < 1.01 r_horizon returns at once, every slot that holds no hit being
\* Captured with the turn counts of that moment.
C3_NoStepInsideHorizon ==
    /\ [](InLoop => FGt(state.r, HorizonRadius(black_hole)))
    /\ [](pc = "bisect" => FGt(prev.r, HorizonRadius(black_hole)))
    /\ [][(InLoop /\ steps_taken' = steps_taken + 1
            /\ FLt(FMul(state'.r, 100), HorizonRadius(black_hole) * 101)) =>
              /\ pc' = "returned"
              /\ \A k \in 1..Len(results) :
                    results'[k] = IF IsHit(results[k]) THEN results[k]
                                  ELSE Captured(turns_r', turns_theta')]_vars

\* C4: for every mass M an accepted step returns on the escape branch (every
\* slot that holds no hit becomes Escaped with the current turn counts)
\* exactly when it ends with r > 1000 M.
C4_EscapeScalesWithMass ==
    [][(InLoop /\ steps_taken' = steps_taken + 1) =>
        ((/\ pc' = "returned"
          /\ \A k \in 1..Len(results) :
                results'[k] = IF IsHit(results[k]) THEN results[k]
                              ELSE Escaped(turns_r', turns_theta'))
         <=> FGt(state'.r, 1000 * black_hole.mass))]_vars

\* C5: the number of accepted steps never exceeds max_steps, and when the
\* step budget is used up every unfilled slot becomes Captured if
\* r < 10 M, Escaped if r > 100 M, and otherwise Captured for sign_r < 0 and
\* Escaped for sign_r > 0, recorded hits staying as they are.
C5_StepBudgetClassification ==
    /\ [](steps_taken <= max_steps)
    /\ [][(pc = "loop" /\ steps_taken >= max_steps /\ pc' = "returned") =>
            \A k \in 1..Len(results) :
                results'[k] =
                    IF IsHit(results[k]) THEN results[k]
                    ELSE IF FLt(state.r, 10 * black_hole.mass)
                         THEN Captured(turns_r, turns_theta)
                    ELSE IF FGt(state.r, 100 * black_hole.mass)
                         THEN Escaped(turns_r, turns_theta)
                    ELSE IF state.sign_r < 0
                         THEN Captured(turns_r, turns_theta)
                    ELSE Escaped(turns_r, turns_theta)]_vars

\* C6: a ray that returns with a non-finite state has every slot that holds
\* no hit classified Aborted.
C6_NonFiniteAborts ==
    (pc = "returned" /\ (IsNaN(state.r) \/ IsNaN(state.theta) \/ IsNaN(state.phi))) =>
        \A k \in 1..Len(results) : ~IsHit(results[k]) => results[k].kind = "Aborted"

\* C7: every call returns: the number of accepted steps never exceeds
\* max_steps, a rejected step leaves the step count alone and strictly
\* shrinks h, which it can only do while h > h_min, and the integrator
\* eventually returns.
C7_Terminates ==
    /\ <>(pc = "returned")
    /\ [](steps_taken <= max_steps)
    /\ [][(InLoop /\ pc' = "loop" /\ steps_taken' = steps_taken) =>
            (h > 1 /\ h' < h /\ h' >= 1)]_vars

\* a step was accepted at h = h_min although its error is above the tolerance
C7_Witness ==
    /\ pc = "bisect"
    /\ steps_taken = 1
    /\ h = 1
    /\ FGt(error, 1000)

\* C8: turns_r and turns_theta stay in 0..255, never decrease, grow by at
\* most one per step and only on an accepted step whose stored sign differs
\* from the sign after the previous accepted step, stay at 255 once there;
\* and the turn counts of a returned result vector do not decrease with order.
C8_TurnCounters ==
    /\ [](turns_r \in 0..255 /\ turns_theta \in 0..255)
    /\ [](pc = "returned" =>
            \A j, k \in 1..Len(results) :
                j <= k => /\ results[j].turns_r <= results[k].turns_r
                          /\ results[j].turns_theta <= results[k].turns_theta)
    /\ [][/\ turns_r' \in {turns_r, turns_r + 1}
          /\ turns_theta' \in {turns_theta, turns_theta + 1}
          /\ turns_r' # turns_r =>
                steps_taken' = steps_taken + 1 /\ prev_sign_r' # prev_sign_r
          /\ turns_theta' # turns_theta =>
                steps_taken' = steps_taken + 1 /\ prev_sign_theta' # prev_sign_theta
          /\ (prev_sign_r' # prev_sign_r /\ turns_r < 255) => turns_r' = turns_r + 1
          /\ (prev_sign_theta' # prev_sign_theta /\ turns_theta < 255) =>
                turns_theta' = turns_theta + 1]_vars

\* sign_r starts at -1 and is -1 again, so it has flipped an even number of
\* times: at least 256 flips, the last of them with the counter at 255
C8_Witness ==
    /\ turns_r = 255
    /\ prev_sign_r = -1
    /\ state.sign_r = -1

\* C9: sign_r and sign_theta are +1 or -1 in the integration state, in the
\* result of the latest dopri8_step (trial step or bisection sub-step), in
\* the refined crossing state and in the signs remembered from the previous
\* accepted step.
C9_SignsAreUnits ==
    /\ initial_sign_theta \in {-1, 1}
    /\ state.sign_r \in {-1, 1} /\ state.sign_theta \in {-1, 1}
    /\ step_signs[1] \in {-1, 1} /\ step_signs[2] \in {-1, 1}
    /\ prev_sign_r \in {-1, 1} /\ prev_sign_theta \in {-1, 1}
    /\ exact_state # NoLocal =>
            exact_state.sign_r \in {-1, 1} /\ exact_state.sign_theta \in {-1, 1}
    /\ pc = "bisect" => prev.sign_r \in {-1, 1} /\ prev.sign_theta \in {-1, 1}

\* a ray that started with sign_theta = +1 (p_th >= 0), has turned in r and
\* in theta, and has had a crossing refined by bisection sub-steps
C9_Witness ==
    /\ initial_sign_theta = 1
    /\ state.sign_theta = -1
    /\ state.sign_r = 1
    /\ exact_state # NoLocal
    /\ steps_taken >= 2

\* C10: a texture slot, once written, keeps its value: no later order of
\* the same pixel writes it again (max_orders ranges over 1..5).
C10_SlotsWrittenOnce ==
    [][\A t \in TextureNames :
        \A i \in DOMAIN tex[t] : tex'[t][i] = tex[t][i]]_vars

\* the pixel loop run by one thread, row by row: pack_pixel_multi_order of
\* pixel (x, y) from order k on
RECURSIVE PackOrdersFrom(_, _, _, _)
PackOrdersFrom(m, x, y, k) ==
    IF k >= max_orders THEN m
    ELSE PackOrdersFrom(
             [tex |-> PackTexturesAt(m.tex, x, y, k,
                                     SceneResults(scene, x, y, max_orders)[k + 1]),
              hp |-> PackHighPrecisionAt(m.hp, x, y, k,
                                         SceneResults(scene, x, y, max_orders)[k + 1]),
              disc_hits |-> m.disc_hits],
             x, y, k + 1)

RECURSIVE PackPixelsFrom(_, _)
PackPixelsFrom(m, i) ==
    IF i >= width * height THEN m
    ELSE PackPixelsFrom(
             PackOrdersFrom(
                 [m EXCEPT !.disc_hits =
                     @ + HitIncrement(SceneResults(scene, i % width, i \div width,
                                                   max_orders))],
                 i % width, i \div width, 0),
             i + 1)

SequentialRender ==
    PackPixelsFrom([tex |-> [t \in TextureNames |-> <<>>], hp |-> <<>>, disc_hits |-> 0], 0)

\* C12: when render_transfer_maps returns, the six textures, the
\* high-precision table and manifest.disc_hits are what one thread working
\* through the pixels in row-major order produces, whatever the schedule was.
C12_ScheduleIndependent ==
    LoopEnded =>
        /\ tex = SequentialRender.tex
        /\ hp = SequentialRender.hp
        /\ manifest.disc_hits = SequentialRender.disc_hits

\* a render that ended after the second row was traced by another thread than
\* the first and the callbacks came out of order, with hits in the textures
\* and the table
C12_Witness ==
    /\ LoopEnded
    /\ \E e1 \in DOMAIN traced : \E e2 \in DOMAIN traced : e1[3] # e2[3]
    /\ pb_position # width * height
    /\ manifest.disc_hits > 0
    /\ DOMAIN tex["t3"] # {}
    /\ DOMAIN hp # {}

\* C13: when render_transfer_maps returns, manifest.disc_hits is the number
\* of pixels whose order-0 result is a disc hit (hits at later orders do not
\* count) and the progress counter is W*H.
C13_CountersAtReturn ==
    LoopEnded =>
        /\ manifest.disc_hits =
               Cardinality({px \in MapPixels :
                   SceneResults(scene, px[1], px[2], max_orders)[1].kind = "DiscHit"})
        /\ pixels_processed = width * height

\* a render that ended with some pixels hit at order 0, some not, and some
\* hit again at order 1
C13_Witness ==
    /\ LoopEnded
    /\ manifest.disc_hits > 0
    /\ manifest.disc_hits < width * height
    /\ max_orders >= 2
    /\ \E px \in MapPixels :
           SceneResults(scene, px[1], px[2], max_orders)[2].kind = "DiscHit"

----------------------------------------------------------------------------
\* Properties of the packer

\* the f32 at slot i of texture name (0.0 where nothing was stored)
TexelOf(t, name, i) == IF i \in DOMAIN t[name] THEN t[name][i] ELSE 0

\* C14: one iteration of pack_pixel_multi_order for result position k of pixel
\* (x, y), idx = y*W + x: a hit stores (r, sin phi, cos phi, w) at
\* idx*4 .. idx*4+3 of the position texture of order k (t1, t3, t5 for k = 0,
\* 1, >= 2; w = 1.0, 0.3, 0.1) and (E, L_z, k, 0) at the same place of the
\* physics texture (t2, t4, t6) and changes nothing else; a non-hit changes
\* no texture.  So once the pixel is packed, the weight channel of a texture
\* pair is non-zero exactly if a hit of one of its orders was packed.
C14_PackedLayout ==
    /\ [][pack_order' = pack_order + 1 =>
            LET k == pack_order
                res == results[k + 1]
                base == (pixel_y * width + pixel_x) * 4
                pos == IF k = 0 THEN "t1" ELSE IF k = 1 THEN "t3" ELSE "t5"
                phy == IF k = 0 THEN "t2" ELSE IF k = 1 THEN "t4" ELSE "t6"
                w == IF k = 0 THEN 10 ELSE IF k = 1 THEN 3 ELSE 1
            IN  IF res.kind = "DiscHit"
                THEN /\ <<TexelOf(tex', pos, base), TexelOf(tex', pos, base + 1),
                          TexelOf(tex', pos, base + 2), TexelOf(tex', pos, base + 3)>>
                            = <<res.r, Sin(res.phi), Cos(res.phi), w>>
                     /\ <<TexelOf(tex', phy, base), TexelOf(tex', phy, base + 1),
                          TexelOf(tex', phy, base + 2), TexelOf(tex', phy, base + 3)>>
                            = <<res.energy, res.angular_momentum, k, 0>>
                     /\ \A name \in TextureNames :
                            \A i \in DOMAIN tex'[name] \cup DOMAIN tex[name] :
                                ~(name \in {pos, phy} /\ i \in base..(base + 3))
                                    => TexelOf(tex', name, i) = TexelOf(tex, name, i)
                ELSE tex' = tex]_vars
    /\ [](pc = "returned" /\ pack_order = Len(results) =>
            \A g \in 0..2 :
                LET pos == IF g = 0 THEN "t1" ELSE IF g = 1 THEN "t3" ELSE "t5"
                IN  \A i \in 0..(width * height * 4 - 1) :
                        (i % 4 = 3 /\ TexelOf(tex, pos, i) # 0)
                            <=> /\ i = (pixel_y * width + pixel_x) * 4 + 3
                                /\ \E k \in 1..Len(results) :
                                       /\ results[k].kind = "DiscHit"
                                       /\ (IF k - 1 >= 2 THEN 2 ELSE k - 1) = g)

\* a pixel packed with hits at orders 0, 1 and 2
C14_Witness ==
    /\ pc = "returned"
    /\ pack_order = Len(results)
    /\ Len(results) >= 3
    /\ \A k \in 1..3 : results[k].kind = "DiscHit"
    /\ TexelOf(tex, "t5", (pixel_y * width + pixel_x) * 4 + 3) = 1
    /\ TexelOf(tex, "t3", (pixel_y * width + pixel_x) * 4 + 3) = 3

\* the entry of the high-precision table at slot i (the default where nothing
\* was stored)
SlotOf(table, i) == IF i \in DOMAIN table THEN table[i] ELSE DefaultPosition

\* C15: with the high-precision export on, once pixel idx is packed, for
\* every k whose result is a hit slot idx*N + k holds that crossing with
\* hit = true; if the order-0 result is not a hit, slot idx*N holds a record
\* with hit = false and exactly the one of escaped / captured / aborted that
\* names the result's variant; the slot of a non-hit at k >= 1 still holds
\* the zero default.
C15_HighPrecisionSlots ==
    (pc = "returned" /\ pack_order = Len(results) /\ high_precision) =>
        LET idx == pixel_y * width + pixel_x
            n == max_orders
        IN  \A k \in 0..(n - 1) :
                LET res == results[k + 1]
                    rec == SlotOf(hp, idx * n + k)
                IN  IF res.kind = "DiscHit"
                    THEN /\ rec.hit
                         /\ ~rec.escaped /\ ~rec.captured /\ ~rec.aborted
                         /\ <<rec.pixel_x, rec.pixel_y, rec.order>> = <<pixel_x, pixel_y, k>>
                         /\ <<rec.r, rec.theta, rec.phi, rec.energy, rec.angular_momentum,
                              rec.carter_q, rec.affine_parameter, rec.phi_wraps,
                              rec.turns_r, rec.turns_theta>>
                              = <<res.r, res.theta, res.phi, res.energy, res.angular_momentum,
                                  res.carter_q, res.affine_parameter, res.phi_wraps,
                                  res.turns_r, res.turns_theta>>
                    ELSE IF k = 0
                         THEN /\ ~rec.hit
                              /\ rec.escaped = (res.kind = "Escaped")
                              /\ rec.captured = (res.kind = "Captured")
                              /\ rec.aborted = (res.kind = "Aborted")
                              /\ res.kind \in {"Escaped", "Captured", "Aborted"}
                         ELSE rec = DefaultPosition

\* a packed pixel of a two-order map whose ray was captured before any
\* crossing: the miss record is in the first slot, the second slot is untouched
C15_Witness ==
    /\ pc = "returned"
    /\ pack_order = Len(results)
    /\ high_precision
    /\ max_orders = 2
    /\ results[1].kind = "Captured"
    /\ SlotOf(hp, (pixel_y * width + pixel_x) * 2).captured
    /\ (pixel_y * width + pixel_x) * 2 + 1 \notin DOMAIN hp

\* C16: with the high-precision export on, a packed ray whose result vector
\* has a non-hit entry has exactly one termination record among its slots
\* idx*N .. idx*N + N-1 (hit = false and one of escaped / captured / aborted
\* set), also when its order-0 result is a hit.
C16_OneTerminationRecord ==
    (/\ pc = "returned"
     /\ pack_order = Len(results)
     /\ high_precision
     /\ \E k \in 1..Len(results) : results[k].kind # "DiscHit") =>
        LET idx == pixel_y * width + pixel_x
        IN  Cardinality({k \in 0..(max_orders - 1) :
                LET rec == SlotOf(hp, idx * max_orders + k)
                IN  ~rec.hit /\ (rec.escaped \/ rec.captured \/ rec.aborted)}) = 1

----------------------------------------------------------------------------
\* Properties of the generator

\* main has saved the maps
Saved == client = "generate" /\ gpc = "exit" /\ exit_code = ExitSuccess

\* C17: after a run of the generator with max_orders N the manifest has
\* t3_url and t4_url exactly if t3_rgba32f.bin and t4_rgba32f.bin were
\* written, which is when N > 1; t5_url and t6_url exactly if
\* t5_rgba32f.bin and t6_rgba32f.bin were written, which is when N > 2; the
\* t1, t2 and flux URLs and files are always there; every URL names its file.
C17_UrlsMatchFiles ==
    Saved =>
        /\ \A pair \in {<<"t3_url", "t3_rgba32f.bin">>, <<"t4_url", "t4_rgba32f.bin">>} :
               /\ (pair[1] \in DOMAIN manifest.urls) <=> (pair[2] \in files)
               /\ (pair[2] \in files) <=> (args.max_orders > 1)
        /\ \A pair \in {<<"t5_url", "t5_rgba32f.bin">>, <<"t6_url", "t6_rgba32f.bin">>} :
               /\ (pair[1] \in DOMAIN manifest.urls) <=> (pair[2] \in files)
               /\ (pair[2] \in files) <=> (args.max_orders > 2)
        /\ \A pair \in {<<"t1_url", "t1_rgba32f.bin">>, <<"t2_url", "t2_rgba32f.bin">>,
                        <<"flux_url", "flux_r32f.bin">>} :
               pair[1] \in DOMAIN manifest.urls /\ pair[2] \in files
        /\ \A key \in DOMAIN manifest.urls : manifest.urls[key] \in files

\* a saved run with three orders: all six textures written and listed
C17_Witness ==
    /\ Saved
    /\ args.max_orders = 3
    /\ {"t3_rgba32f.bin", "t5_rgba32f.bin", "t6_rgba32f.bin"} \subseteq files
    /\ {"t3_url", "t5_url", "t6_url"} \subseteq DOMAIN manifest.urls

\* C18: when the ray origin is on the polar axis (sin theta_0 = 0) the
\* initializer reports a failure; no worker ever holds conserved quantities
\* it returned for such an origin.
C18_PolarAxisRefused ==
    \A t \in Workers :
        (workers[t].photon.kind # "none" /\ Sin(OriginTheta(camera)) = 0)
            => workers[t].photon.kind \notin {"values"}

\* C19: a run of the generator with an unknown preset label, an unknown
\* black-hole type, or a width or height of 0 never traces a ray, never
\* writes a file, never reaches the pixel loop or the save, and never ends
\* with exit code 0.
C19_InvalidConfigFailsFast ==
    (/\ client = "generate"
     /\ \/ args.preset \notin {"30deg", "45deg", "60deg", "75deg"}
        \/ args.black_hole_type \notin {"prograde", "retrograde", "schwarzschild"}
        \/ args.width = 0
        \/ args.height = 0) =>
        /\ traced = <<>>
        /\ files = {}
        /\ exit_code # ExitSuccess
        /\ gpc \notin {"workers", "save"}

\* C20: with W, H > 0 (and a camera Camera::new accepts) RenderConfig::new
\* accepts max_orders N exactly for N in 1..5, the range of the command line.
C20_OrdersOneToFive ==
    (/\ client = "library"
     /\ gpc # "main"
     /\ args.width > 0 /\ args.height > 0
     /\ args.inclination >= 0 /\ args.inclination <= 90) =>
        ((config # NoLocal) <=> (args.max_orders >= 1 /\ args.max_orders <= 5))


----------------------------------------------------------------------------
\* Properties of the stored integration state

\* the integration loop is between two trial steps, after an accepted step
\* that did not end the ray
AfterAcceptedStep == pc = "loop" /\ steps_taken > 0

\* C21: after every accepted step that does not terminate the ray, the stored
\* integration state satisfies 0 <= phi < 2*pi and 0 <= theta <= pi.
C21_AnglesInRange ==
    AfterAcceptedStep =>
        /\ FLe(0, state.phi) /\ FLt(state.phi, TwoPi)
        /\ FLe(0, state.theta) /\ FLe(state.theta, PI)

\* the same for the states whose angles are numbers
C21_FiniteAnglesInRange ==
    (AfterAcceptedStep /\ ~IsNaN(state.phi) /\ ~IsNaN(state.theta)) =>
        /\ 0 <= state.phi /\ state.phi < TwoPi
        /\ 0 <= state.theta /\ state.theta <= PI


----------------------------------------------------------------------------
\* Properties of the recorded crossings

\* the azimuth of the refined crossing state that a bisection exit is about to
\* record, accumulated since the start of the ray: the accumulated azimuth of
\* the accepted state, corrected by the part of the step the crossing leaves out
CrossingAzimuth == FAdd(azimuth, FSub(exact_state'.phi, state.phi))

\* C22: the phi_wraps recorded for a crossing is |phi - phi_0| / (2 pi) with
\* phi the azimuth accumulated over all steps since the start of the ray, not
\* reduced modulo 2 pi (both sides in eighths of a turn).
C22_WindingCount ==
    [][\A k \in DOMAIN results :
          (pc = "bisect" /\ results'[k] # results[k] /\ IsHit(results'[k])) =>
              results'[k].phi_wraps = FAbs(FSub(CrossingAzimuth, state.initial_phi))]_vars


----------------------------------------------------------------------------
\* Properties of the disc model and of the validation statistics

\* the table of a generate_flux_lut call that has returned
FluxReturned == flux.pc = "returned" /\ flux.r_isco > 0

\* C23: novikov_thorne_emissivity(r, r_isco) is 0 for every r <= r_isco and
\* positive for r > r_isco (here: at every radius a table samples), and
\* generate_flux_lut returns exactly `samples` values, the first the
\* emissivity at r_min (0 when r_min = r_isco), the last the emissivity at
\* r_max.
C23_FluxLut ==
    /\ \A j \in 1..Len(flux.lut) :
          LET r == SampleRadius(flux, j - 1)
          IN  /\ FLe(r, flux.r_isco) => flux.lut[j] = 0
              /\ FGt(r, flux.r_isco) => FGt(flux.lut[j], 0)
    /\ FluxReturned =>
          /\ Len(flux.lut) = flux.samples
          /\ flux.samples > 0 =>
                /\ flux.lut[1] = AsF32(novikov_thorne_emissivity(flux.r_min, flux.r_isco))
                /\ flux.r_min = flux.r_isco => flux.lut[1] = 0
                /\ flux.lut[flux.samples] =
                       AsF32(novikov_thorne_emissivity(flux.r_max, flux.r_isco))

\* the same for the calls that ask for at least two samples
C23_FluxLutOfTwoOrMore ==
    (FluxReturned /\ flux.samples >= 2) =>
          /\ Len(flux.lut) = flux.samples
          /\ flux.lut[1] = AsF32(novikov_thorne_emissivity(flux.r_min, flux.r_isco))
          /\ flux.r_min = flux.r_isco => flux.lut[1] = 0
          /\ flux.lut[flux.samples] =
                 AsF32(novikov_thorne_emissivity(flux.r_max, flux.r_isco))


\* a returned table that starts at the ISCO, reaches beyond twice the ISCO
\* radius and samples every whole radius in between: it brackets the peak of
\* the profile, which lies near 1.36 r_isco
CoversPeak ==
    /\ FluxReturned
    /\ flux.r_min = flux.r_isco
    /\ flux.r_max >= 2 * flux.r_isco
    /\ flux.samples = flux.r_max - flux.r_min + 1

\* the largest entry of a table without NaN
PeakOf(lut) == CHOOSE v \in {lut[j] : j \in 1..Len(lut)} : \A j \in 1..Len(lut) : lut[j] <= v

\* C24: the emissivity profile is normalised so that its maximum over
\* r >= r_isco is approximately 1 (here: within 10 per cent of 1.0, in units
\* of 1e-6), for every r_isco > 0.
C24_PeakNearOne ==
    CoversPeak => (900000 <= PeakOf(flux.lut) /\ PeakOf(flux.lut) <= 1100000)

\* what the profile does reach: no sample above 0.125
C24_PeakBelowOneEighth ==
    \A j \in 1..Len(flux.lut) : IsNaN(flux.lut[j]) \/ flux.lut[j] <= 125000


\* e_1 + ... + e_n
RECURSIVE SumOf(_)
SumOf(seq) == IF seq = <<>> THEN 0 ELSE Head(seq) + SumOf(Tail(seq))

\* max(0, e_1, ..., e_n)
MaxOf(seq) ==
    LET values == {0} \cup {seq[j] : j \in 1..Len(seq)}
    IN  CHOOSE v \in values : \A w \in values : w <= v

\* C25: after update(e_1), ..., update(e_n) on a new ValidationStats,
\* sample_count = n, max_invariant_error = max(0, e_1, ..., e_n) and
\* mean_invariant_error = (e_1 + ... + e_n) / n (the two fractions compared by
\* cross-multiplication).
C25_RunningStatistics ==
    /\ stats.sample_count = Len(updates)
    /\ stats.max_invariant_error = MaxOf(updates)
    /\ Len(updates) > 0 =>
          stats.mean_invariant_error.num * Len(updates)
              = SumOf(updates) * stats.mean_invariant_error.den

\* three updates with different errors, the largest of them last
C25_Witness ==
    /\ Len(updates) = 3
    /\ updates[1] < updates[2] /\ updates[2] < updates[3]
    /\ stats.sample_count = 3
    /\ stats.max_invariant_error = updates[3]


----------------------------------------------------------------------------
\* Properties of the step-size control

\* a step of the main loop that rejects its trial step
RejectedTrial == last_trial' # last_trial /\ ~last_trial'.accepted

----------------------------------------------------------------------------
\* Properties of the direction signs

\* a step of the main loop that accepts its trial step
AcceptedTrial == steps_taken' = steps_taken + 1

\* the accepted step starts where the potential is positive and ends where it
\* is zero or negative (before clamping): at or beyond a turning point
ReachesRadialTurn ==
    /\ RPotential(state.r) > 0
    /\ ~IsNaN(last_trial'.r) /\ last_trial'.r \in traj.r_turn
ReachesPolarTurn ==
    /\ ThetaPotential(state.theta) > 0
    /\ ~IsNaN(last_trial'.theta) /\ last_trial'.theta \in traj.th_turn

\* C27: across every accepted step for which the radial potential R is
\* positive before the step and zero or negative (before clamping) after it,
\* the sign_r stored after the step is the opposite of the sign_r stored
\* before it, whatever the size of the radial increment; likewise for
\* sign_theta with the polar potential.
C27_TurningPointFlips ==
    [][AcceptedTrial =>
          /\ ReachesRadialTurn => state'.sign_r = 0 - state.sign_r
          /\ ReachesPolarTurn => state'.sign_theta = 0 - state.sign_theta]_vars

\* the increment of the accepted step is above 1e-12 and has the direction of
\* the sign stored before the step
Resolved(d, sign, slow) == d # 0 /\ d \notin slow /\ (d > 0 <=> sign > 0)

\* the same for the steps whose increment is above 1e-12 and follows the
\* stored sign
C27_ResolvedTurningPointFlips ==
    [][AcceptedTrial =>
          /\ (ReachesRadialTurn
                /\ Resolved(last_trial'.r - state.r, state.sign_r, traj.slow_r))
                => state'.sign_r = 0 - state.sign_r
          /\ (ReachesPolarTurn
                /\ Resolved(last_trial'.theta - state.theta, state.sign_theta,
                            traj.slow_theta))
                => state'.sign_theta = 0 - state.sign_theta]_vars


----------------------------------------------------------------------------
\* Properties of the crossing detection

\* an accepted step after which the ray goes on and for which no crossing
\* was flagged (bisect_disc_intersection was not called)
AcceptedWithoutCrossing ==
    /\ AcceptedTrial
    /\ pc = "loop" /\ pc' = "loop"
    /\ exact_state' = NoLocal

\* C28: if the stored theta is strictly on one side of pi/2 after some
\* accepted step and strictly on the other side after a later accepted step
\* of the same ray, a crossing is flagged for at least one step in between
\* (`side` is the side of the latest stored theta off the equator since the
\* latest flagged crossing), an intermediate state with theta = pi/2 and a
\* theta wrapped back into [0, pi] included.
C28_CrossingsFlagged ==
    [][AcceptedWithoutCrossing =>
          (side = 0 \/ SideOf(state'.theta) \in {0, side})]_vars


\* C29: the affine parameter recorded for a crossing lies within
\* [lambda_before, lambda_after] of the accepted step that flagged it, for
\* every exit of the bisection, and within one ray the affine parameter of
\* the order k+1 hit is strictly greater than that of the order k hit.
C29_AffineParameterOrdered ==
    /\ [][\A k \in DOMAIN results :
             (pc = "bisect" /\ results'[k] # results[k] /\ IsHit(results'[k])) =>
                 /\ FLe(prev.lambda, results'[k].affine_parameter)
                 /\ FLe(results'[k].affine_parameter, state.lambda)]_vars
    /\ [](\A k \in DOMAIN results :
             (k + 1 \in DOMAIN results /\ IsHit(results[k]) /\ IsHit(results[k + 1])) =>
                 FLt(results[k].affine_parameter, results[k + 1].affine_parameter))

\* a ray has returned with hits of order 0 and 1, the second refined by the
\* bisection
C29_Witness ==
    /\ pc = "returned"
    /\ Len(results) >= 2
    /\ IsHit(results[1]) /\ IsHit(results[2])
    /\ exact_state # NoLocal
    /\ results[2].affine_parameter = exact_state.lambda


----------------------------------------------------------------------------
\* Properties of the progress reports

\* C30: under every interleaving of the worker threads the values passed to
\* the progress callback are strictly increasing in invocation order, so the
\* last invocation of a render carries W*H.
C30_ProgressIncreasing ==
    /\ [][pb_position' # pb_position => pb_position' > pb_position]_vars
    /\ [](LoopEnded => pb_position = width * height)

\* the counts themselves: every pixel is counted once, whatever the order of
\* the reports
C30_EveryPixelCounted == LoopEnded => pixels_processed = width * height
====
